---- MODULE Spec2Model ----
(***************************************************************************)
(* The statistics collection configuration layer of wult:                  *)
(*   - StatsCollectBuilder (statscollectlibs/collector/STCHelpers.py),     *)
(*     which parses the user's statistics selection and interval strings;  *)
(*   - STCAgent (statscollectlibs/stcagentlibs/STCAgent.py), the facade    *)
(*     over the in-band and the out-of-band collector.                     *)
(*                                                                         *)
(* A string is a sequence of lexemes.  The lexemes are the punctuation and *)
(* digit characters, one each, and a few whole words ("acpower", "all",    *)
(* ...).  No lexeme is a prefix of another, so two sequences are equal     *)
(* exactly when the strings they spell are equal, and every character test *)
(* of the code (a separator, a leading "!", white space, a digit) is a     *)
(* test of one lexeme.                                                     *)
(***************************************************************************)
EXTENDS Integers, Sequences, FiniteSets, TLC

\* Bounds of the model.
MaxEntries == 2     \* comma-separated entries in one input string
MaxCalls == 2       \* parse calls on one builder
MaxOps == 3         \* facade calls on one STCAgent object

----------------------------------------------------------------------------
(* Strings *)

Space == " "
Digits == {"0", "1", "5"}

RECURSIVE lstrip(_, _)
\* str.lstrip(chars): drop the leading lexemes that are in 'chars'.
lstrip(s, chars) ==
    IF s # <<>> /\ Head(s) \in chars THEN lstrip(Tail(s), chars) ELSE s

RECURSIVE rstrip(_, _)
\* str.rstrip(chars)
rstrip(s, chars) ==
    IF s # <<>> /\ s[Len(s)] \in chars THEN rstrip(SubSeq(s, 1, Len(s) - 1), chars) ELSE s

\* str.strip(chars)
strip(s, chars) == rstrip(lstrip(s, chars), chars)

RECURSIVE split(_, _)
\* str.split(sep): the fields between the separators, empty fields included.
split(s, sep) ==
    IF \A i \in 1..Len(s) : s[i] # sep
    THEN <<s>>
    ELSE LET i == CHOOSE k \in 1..Len(s) : s[k] = sep /\ \A j \in 1..(k - 1) : s[j] # sep
         IN  <<SubSeq(s, 1, i - 1)>> \o split(SubSeq(s, i + 1, Len(s)), sep)

RECURSIVE csv_fields(_)
\* The loop of split_csv_line: empty values are skipped, the others are
\* appended with the surrounding white space removed.
csv_fields(vals) ==
    IF vals = <<>> THEN <<>>
    ELSE IF Head(vals) = <<>> THEN csv_fields(Tail(vals))
    ELSE <<strip(Head(vals), {Space})>> \o csv_fields(Tail(vals))

\* Trivial.split_csv_line(csv_line, sep)
split_csv_line(csv_line, sep) ==
    IF csv_line = <<>> THEN <<>>
    ELSE csv_fields(split(strip(csv_line, {sep}), sep))

\* Trivial.is_float(value): float(str(value)) does not raise.  Within the
\* lexemes of the model float() accepts an optional "-", then digits with at
\* most one ".", at least one digit; white space around it is ignored.
is_float(value) ==
    LET t == strip(value, {Space})
        body == IF t # <<>> /\ Head(t) = "-" THEN Tail(t) ELSE t
    IN  /\ \A i \in 1..Len(body) : body[i] \in Digits \cup {"."}
        /\ Cardinality({i \in 1..Len(body) : body[i] = "."}) <= 1
        /\ \E i \in 1..Len(body) : body[i] \in Digits

DigitVal(c) == CASE c = "0" -> 0 [] c = "1" -> 1 [] c = "5" -> 5

RECURSIVE DecVal(_)
\* The number a sequence of digits spells.
DecVal(ds) == IF ds = <<>> THEN 0 ELSE 10 * DecVal(SubSeq(ds, 1, Len(ds) - 1)) + DigitVal(ds[Len(ds)])

RECURSIVE Normal(_, _)
\* m / 10^e with the trailing zeros of the fraction removed: equal numbers
\* have equal representations.
Normal(m, e) == IF e > 0 /\ m % 10 = 0 THEN Normal(m \div 10, e - 1) ELSE [m |-> m, e |-> e]

\* float(value) of a value is_float accepts: the number m / 10^e.
float(value) ==
    LET t == strip(value, {Space})
        neg == t # <<>> /\ Head(t) = "-"
        body == IF neg THEN Tail(t) ELSE t
        ds == SelectSeq(body, LAMBDA c : c \in Digits)
        dot == IF \E i \in 1..Len(body) : body[i] = "."
               THEN CHOOSE i \in 1..Len(body) : body[i] = "."
               ELSE Len(body) + 1
        frac == IF dot > Len(body) THEN 0 ELSE Len(body) - dot
        n == Normal(DecVal(ds), frac)
    IN  [m |-> IF neg THEN 0 - n.m ELSE n.m, e |-> n.e]

----------------------------------------------------------------------------
(* The statistics catalog *)

acpower == <<"acpower">>
ipmi == <<"ipmi">>
ipmi_inband == <<"ipmi", "-", "inband">>
turbostat == <<"turbostat">>

\* _Collector.DEFAULT_STINFO: the known statistics, in-band or out-of-band,
\* with the properties each one has.
DEFAULT_STINFO ==
    (turbostat :> [inband |-> TRUE, props |-> {}]) @@
    (ipmi_inband :> [inband |-> TRUE, props |-> {}]) @@
    (ipmi :> [inband |-> FALSE, props |-> {"host"}]) @@
    (acpower :> [inband |-> FALSE, props |-> {"devnode", "pmtype"}])

StNames == DOMAIN DEFAULT_STINFO

\* _check_stname(stname) does not raise.
check_stname(stname) == stname \in StNames

\* _check_stnames(stnames) does not raise.
check_stnames(stnames) == \A stname \in stnames : check_stname(stname)

----------------------------------------------------------------------------
(* StatsCollectBuilder *)

VARIABLES
    builder,        \* the StatsCollectBuilder object: discover, include, exclude, intervals
    op,             \* the method called last on the builder
    arg,            \* the string that call was given
    err,            \* the error that call raised, "none" when it returned
    stnames_raised, \* some parse_stnames call on this builder has raised
    calls           \* the number of calls made on the builder

bvars == <<builder, op, arg, err, stnames_raised, calls>>

EmptyMap == [x \in {} |-> 0]

\* A dictionary assignment d[key] = value.
SetItem(d, key, value) == [k \in DOMAIN d \cup {key} |-> IF k = key THEN value ELSE d[k]]

\* StatsCollectBuilder.__init__
NewBuilder == [discover |-> FALSE, include |-> {}, exclude |-> {}, intervals |-> EmptyMap]

RECURSIVE stnames_loop_keepbang(_, _)
\* The loop with an excluded name stored as written, the "!" not removed.
stnames_loop_keepbang(toks, b) ==
    IF toks = <<>> THEN b
    ELSE LET stname == Head(toks)
         IN  stnames_loop_keepbang(Tail(toks),
                 IF stname = <<"all">>
                 THEN [b EXCEPT !.discover = TRUE]
                 ELSE IF stname # <<>> /\ Head(stname) = "!"
                 THEN [b EXCEPT !.exclude = @ \cup {stname}]
                 ELSE [b EXCEPT !.include = @ \cup {stname}])

RECURSIVE stnames_loop(_, _)
\* The loop of parse_stnames over the names split_csv_line returns.
stnames_loop(toks, b) ==
    IF toks = <<>> THEN b
    ELSE LET stname == Head(toks)
         IN  stnames_loop(Tail(toks),
                 IF stname = <<"all">>
                 THEN [b EXCEPT !.discover = TRUE]
                 ELSE IF stname # <<>> /\ Head(stname) = "!"
                 THEN [b EXCEPT !.exclude = @ \cup {Tail(stname)}]
                 ELSE [b EXCEPT !.include = @ \cup {stname}])

\* parse_stnames without the check of include against exclude.
parse_stnames_noconflict(b, stnames) ==
    LET b1 == stnames_loop(split_csv_line(stnames, ","), b)
    IN  [builder |-> b1,
         err |-> IF ~check_stnames(b1.include) THEN "UnknownStatistic"
                 ELSE IF ~check_stnames(b1.exclude) THEN "UnknownStatistic"
                 ELSE "none"]

\* parse_stnames that forgets the names and the discovery of earlier calls.
parse_stnames_fresh(b, stnames) ==
    LET b1 == stnames_loop(split_csv_line(stnames, ","),
                           [b EXCEPT !.include = {}, !.exclude = {}, !.discover = FALSE])
        bogus == b1.include \cap b1.exclude
    IN  [builder |-> b1,
         err |-> IF bogus # {} THEN "ConflictingSelection"
                 ELSE IF ~check_stnames(b1.include) THEN "UnknownStatistic"
                 ELSE IF ~check_stnames(b1.exclude) THEN "UnknownStatistic"
                 ELSE "none"]

\* StatsCollectBuilder.parse_stnames: the builder and the error after the call.
parse_stnames(b, stnames) ==
    LET b1 == stnames_loop(split_csv_line(stnames, ","), b)
        bogus == b1.include \cap b1.exclude
    IN  [builder |-> b1,
         err |-> IF bogus # {} THEN "ConflictingSelection"
                 ELSE IF ~check_stnames(b1.include) THEN "UnknownStatistic"
                 ELSE IF ~check_stnames(b1.exclude) THEN "UnknownStatistic"
                 ELSE "none"]

RECURSIVE intervals_loop_storefirst(_, _)
\* The loop with the interval stored before the name is checked.
intervals_loop_storefirst(entries, intervals) ==
    IF entries = <<>> THEN [intervals |-> intervals, err |-> "none"]
    ELSE LET entry == Head(entries)
             fields == split_csv_line(entry, ":")
         IN  IF Len(fields) # 2 THEN [intervals |-> intervals, err |-> "BadEntry"]
             ELSE IF ~is_float(fields[2])
             THEN [intervals |-> intervals, err |-> "BadInterval"]
             ELSE IF ~check_stname(fields[1])
             THEN [intervals |-> SetItem(intervals, fields[1], float(fields[2])),
                   err |-> "UnknownStatistic"]
             ELSE intervals_loop_storefirst(Tail(entries),
                                 SetItem(intervals, fields[1], float(fields[2])))

RECURSIVE intervals_loop_nonamecheck(_, _)
\* The loop without the check of the name.
intervals_loop_nonamecheck(entries, intervals) ==
    IF entries = <<>> THEN [intervals |-> intervals, err |-> "none"]
    ELSE LET entry == Head(entries)
             fields == split_csv_line(entry, ":")
         IN  IF Len(fields) # 2 THEN [intervals |-> intervals, err |-> "BadEntry"]
             ELSE IF ~is_float(fields[2])
             THEN [intervals |-> intervals, err |-> "BadInterval"]
             ELSE intervals_loop_nonamecheck(Tail(entries),
                                 SetItem(intervals, fields[1], float(fields[2])))

RECURSIVE intervals_loop_firstwins(_, _)
\* The loop with a name's first entry kept, the later ones dropped.
intervals_loop_firstwins(entries, intervals) ==
    IF entries = <<>> THEN [intervals |-> intervals, err |-> "none"]
    ELSE LET entry == Head(entries)
             fields == split_csv_line(entry, ":")
         IN  IF Len(fields) # 2 THEN [intervals |-> intervals, err |-> "BadEntry"]
             ELSE IF ~check_stname(fields[1])
             THEN [intervals |-> intervals, err |-> "UnknownStatistic"]
             ELSE IF ~is_float(fields[2])
             THEN [intervals |-> intervals, err |-> "BadInterval"]
             ELSE intervals_loop_firstwins(Tail(entries),
                                 IF fields[1] \in DOMAIN intervals THEN intervals
                                 ELSE SetItem(intervals, fields[1], float(fields[2])))

RECURSIVE intervals_loop_minfields(_, _)
\* The loop with an entry of more than two fields let through.
intervals_loop_minfields(entries, intervals) ==
    IF entries = <<>> THEN [intervals |-> intervals, err |-> "none"]
    ELSE LET entry == Head(entries)
             fields == split_csv_line(entry, ":")
         IN  IF Len(fields) < 2 THEN [intervals |-> intervals, err |-> "BadEntry"]
             ELSE IF ~check_stname(fields[1])
             THEN [intervals |-> intervals, err |-> "UnknownStatistic"]
             ELSE IF ~is_float(fields[2])
             THEN [intervals |-> intervals, err |-> "BadInterval"]
             ELSE intervals_loop_minfields(Tail(entries),
                                 SetItem(intervals, fields[1], float(fields[2])))

RECURSIVE intervals_loop_reset(_, _)
\* The loop with the dictionary emptied when an entry is rejected.
intervals_loop_reset(entries, intervals) ==
    IF entries = <<>> THEN [intervals |-> intervals, err |-> "none"]
    ELSE LET entry == Head(entries)
             fields == split_csv_line(entry, ":")
         IN  IF Len(fields) # 2 THEN [intervals |-> EmptyMap, err |-> "BadEntry"]
             ELSE IF ~check_stname(fields[1])
             THEN [intervals |-> EmptyMap, err |-> "UnknownStatistic"]
             ELSE IF ~is_float(fields[2])
             THEN [intervals |-> EmptyMap, err |-> "BadInterval"]
             ELSE intervals_loop_reset(Tail(entries),
                                 SetItem(intervals, fields[1], float(fields[2])))

RECURSIVE intervals_loop(_, _)
\* The loop of parse_intervals: the intervals dictionary and the error when
\* the loop ends or raises.
intervals_loop(entries, intervals) ==
    IF entries = <<>> THEN [intervals |-> intervals, err |-> "none"]
    ELSE LET entry == Head(entries)
             fields == split_csv_line(entry, ":")
         IN  IF Len(fields) # 2 THEN [intervals |-> intervals, err |-> "BadEntry"]
             ELSE IF ~check_stname(fields[1])
             THEN [intervals |-> intervals, err |-> "UnknownStatistic"]
             ELSE IF ~is_float(fields[2])
             THEN [intervals |-> intervals, err |-> "BadInterval"]
             ELSE intervals_loop(Tail(entries),
                                 SetItem(intervals, fields[1], float(fields[2])))

\* StatsCollectBuilder.parse_intervals: the builder and the error after the call.
parse_intervals(b, intervals) ==
    LET r == intervals_loop(split_csv_line(intervals, ","), b.intervals)
    IN  [builder |-> [b EXCEPT !.intervals = r.intervals], err |-> r.err]

\* The two messages of parse_intervals are the malformed-entry error.
MalformedEntry == {"BadEntry", "BadInterval"}

----------------------------------------------------------------------------
(* Input strings *)

RECURSIVE Join(_, _)
\* The entries joined by the separator.
Join(entries, sep) ==
    IF entries = <<>> THEN <<>>
    ELSE IF Len(entries) = 1 THEN entries[1]
    ELSE entries[1] \o <<sep>> \o Join(Tail(entries), sep)

\* The strings of at most MaxEntries comma-separated entries of a pool.
Strings(pool) == {Join(es, ",") : es \in UNION {[1..n -> pool] : n \in 0..MaxEntries}}

StnamesPool ==
    { <<"all">>, acpower, <<"!">> \o acpower, <<"!">> \o ipmi, <<"x">>, <<"!", "x">>,
      <<"!", "all">>, <<" ">> \o turbostat \o <<" ">>, <<>> }

IntervalsPool ==
    { acpower \o <<":", "5", ".", "0">>, turbostat \o <<":", "1">>, acpower \o <<":", "1">>,
      <<"x">>, acpower \o <<":", "1", ":", "5">>, acpower \o <<":", "-", "1">>,
      acpower \o <<":", "0">>, <<"x", ":", "1">>, acpower \o <<":", "x">>,
      <<"x", ":", "x">>, acpower \o <<":", ":", "5">>,
      <<" ">> \o ipmi \o <<" ", ":", " ", "0", ".", "5", " ">>, <<>> }

\* The smaller pools of the calls that follow one another on one builder.
StnamesCore == { <<"all">>, acpower, <<"!">> \o acpower, <<"x">>, <<"!", "x">> }

IntervalsCore ==
    { acpower \o <<":", "5", ".", "0">>, acpower \o <<":", "1">>, turbostat \o <<":", "1">>,
      <<"x">>, <<"x", ":", "1">> }

StnamesInputs == Strings(StnamesPool)
IntervalsInputs == Strings(IntervalsPool)
StnamesCoreInputs == Strings(StnamesCore)
IntervalsCoreInputs == Strings(IntervalsCore)

----------------------------------------------------------------------------
(* STCAgent *)

VARIABLES
    agent,          \* the STCAgent object: the two collectors and their descriptors
    aop,            \* the method called last on the agent
    aarg,           \* the arguments of that call
    aerr,           \* the error that call raised, "none" when it returned
    ops,            \* the number of calls made on the agent
    pman,           \* the process manager of the target host
    running,        \* which collectors' agent processes are sampling
    trace,          \* the steps of that call: the commands sent to the collectors
    aret,           \* what that call returned, or what its error lists
    prev,           \* the method called before that call
    log             \* the calls a helper of STCHelpers made on the agent

avars == <<agent, aop, aarg, aerr, ops, pman, running, trace, aret, prev, log>>

vars == <<builder, op, arg, err, stnames_raised, calls,
          agent, aop, aarg, aerr, ops, pman, running, trace, aret, prev, log>>

\* The default interval and tool path of a new descriptor, and a property
\* that has no value yet.
DefaultInterval == [m |-> 5, e |-> 0]
DefaultToolpath == "default"
NoValue == "None"

\* The stinfo dictionary of a new collector: the descriptors of the catalog's
\* statistics of its locality, all disabled.
NewStinfo(inband) ==
    [stname \in {n \in StNames : DEFAULT_STINFO[n].inband = inband} |->
        [enabled |-> FALSE,
         interval |-> DefaultInterval,
         toolpath |-> DefaultToolpath,
         props |-> [name \in DEFAULT_STINFO[stname].props |-> NoValue]]]

\* STCAgent.__init__ with an out-of-band collector whatever the host is.
NewAgent_alwaysoob(is_remote) ==
    [pman |-> TRUE,
     inb |-> TRUE,
     inbcoll |-> NewStinfo(TRUE),
     oob |-> TRUE,
     oobcoll |-> NewStinfo(FALSE)]

\* STCAgent.__init__: the in-band collector always, the out-of-band collector
\* when the SUT is remote ('pman', 'inb' and 'oob' are the truth of
\* self._pman, self._inbcoll and self._oobcoll).
NewAgent(is_remote) ==
    [pman |-> TRUE,
     inb |-> TRUE,
     inbcoll |-> NewStinfo(TRUE),
     oob |-> is_remote,
     oobcoll |-> IF is_remote THEN NewStinfo(FALSE) ELSE EmptyMap]

\* No agent has been made: the builder is used on its own.
NoAgent ==
    [pman |-> FALSE, inb |-> FALSE, inbcoll |-> EmptyMap, oob |-> FALSE, oobcoll |-> EmptyMap]

\* Path(path).is_absolute(): the path starts at the root.
is_absolute(path) == path # <<>> /\ Head(path) = "/"

\* __init__ that makes the collectors before it looks at the directories.
init_collfirst(is_remote, local_outdir, remote_outdir) ==
    IF local_outdir # <<>> /\ ~is_absolute(local_outdir)
    THEN [agent |-> NewAgent(is_remote), err |-> "NotAbsolute"]
    ELSE IF remote_outdir # <<>> /\ ~is_absolute(remote_outdir)
    THEN [agent |-> NewAgent(is_remote), err |-> "NotAbsolute"]
    ELSE [agent |-> NewAgent(is_remote), err |-> "none"]

\* STCAgent.__init__(pman, local_outdir, remote_outdir): the object and the
\* error. An output directory that is given must be absolute; the check
\* comes after 'self._pman = pman' and before the collectors are made.
init(is_remote, local_outdir, remote_outdir) ==
    IF local_outdir # <<>> /\ ~is_absolute(local_outdir)
    THEN [agent |-> [NoAgent EXCEPT !.pman = TRUE], err |-> "NotAbsolute"]
    ELSE IF remote_outdir # <<>> /\ ~is_absolute(remote_outdir)
    THEN [agent |-> [NoAgent EXCEPT !.pman = TRUE], err |-> "NotAbsolute"]
    ELSE [agent |-> NewAgent(is_remote), err |-> "none"]

\* _separate_inb_vs_oob, for names that are all known.
separate_inb_vs_oob(stnames) ==
    [inb |-> {stname \in stnames : DEFAULT_STINFO[stname].inband},
     oob |-> {stname \in stnames : ~DEFAULT_STINFO[stname].inband}]

\* set_disabled_stats with the flag of every descriptor assigned, as
\* set_enabled_stats does: what is not listed becomes enabled.
set_disabled_stats_assignall(a, stnames) ==
    IF ~check_stnames(stnames) THEN [agent |-> a, err |-> "UnknownStatistic"]
    ELSE LET sep == separate_inb_vs_oob(stnames)
         IN  [agent |->
                 [a EXCEPT
                     !.inbcoll = [n \in DOMAIN @ |-> [@[n] EXCEPT !.enabled = (n \notin sep.inb)]],
                     !.oobcoll = IF a.oob
                         THEN [n \in DOMAIN @ |-> [@[n] EXCEPT !.enabled = (n \notin sep.oob)]]
                         ELSE @],
              err |-> "none"]

\* set_disabled_stats that passes over the names it does not know instead
\* of raising.
set_disabled_stats_skipunknown(a, stnames) ==
    LET sep == separate_inb_vs_oob(stnames \cap StNames)
    IN  [agent |->
            [a EXCEPT
                !.inbcoll = [n \in DOMAIN @ |->
                    IF n \in sep.inb THEN [@[n] EXCEPT !.enabled = FALSE] ELSE @[n]],
                !.oobcoll = IF a.oob
                    THEN [n \in DOMAIN @ |->
                        IF n \in sep.oob THEN [@[n] EXCEPT !.enabled = FALSE] ELSE @[n]]
                    ELSE @],
         err |-> "none"]

\* STCAgent.set_disabled_stats: the agent and the error after the call.
set_disabled_stats(a, stnames) ==
    IF ~check_stnames(stnames) THEN [agent |-> a, err |-> "UnknownStatistic"]
    ELSE LET sep == separate_inb_vs_oob(stnames)
         IN  [agent |->
                 [a EXCEPT
                     !.inbcoll = [n \in DOMAIN @ |->
                         IF n \in sep.inb THEN [@[n] EXCEPT !.enabled = FALSE] ELSE @[n]],
                     !.oobcoll = IF a.oob
                         THEN [n \in DOMAIN @ |->
                             IF n \in sep.oob THEN [@[n] EXCEPT !.enabled = FALSE] ELSE @[n]]
                         ELSE @],
              err |-> "none"]

\* set_enabled_stats that enables the listed statistics and leaves the
\* others as they are.
set_enabled_stats_keepothers(a, stnames) ==
    IF ~check_stnames(stnames) THEN [agent |-> a, err |-> "UnknownStatistic"]
    ELSE LET sep == separate_inb_vs_oob(stnames)
         IN  [agent |->
                 [a EXCEPT
                     !.inbcoll = [n \in DOMAIN @ |->
                         IF n \in sep.inb THEN [@[n] EXCEPT !.enabled = TRUE] ELSE @[n]],
                     !.oobcoll = IF a.oob
                         THEN [n \in DOMAIN @ |->
                             IF n \in sep.oob THEN [@[n] EXCEPT !.enabled = TRUE] ELSE @[n]]
                         ELSE @],
              err |-> "none"]

\* set_enabled_stats that raises when it is given an out-of-band name and
\* there is no out-of-band collector.
set_enabled_stats_needoob(a, stnames) ==
    IF ~check_stnames(stnames) THEN [agent |-> a, err |-> "UnknownStatistic"]
    ELSE LET sep == separate_inb_vs_oob(stnames)
         IN  IF ~a.oob /\ sep.oob # {} THEN [agent |-> a, err |-> "ErrorNotFound"]
             ELSE [agent |->
                     [a EXCEPT
                         !.inbcoll = [n \in DOMAIN @ |-> [@[n] EXCEPT !.enabled = (n \in sep.inb)]],
                         !.oobcoll = IF a.oob
                             THEN [n \in DOMAIN @ |-> [@[n] EXCEPT !.enabled = (n \in sep.oob)]]
                             ELSE @],
                   err |-> "none"]

\* STCAgent.set_enabled_stats: the agent and the error after the call.
set_enabled_stats(a, stnames) ==
    IF ~check_stnames(stnames) THEN [agent |-> a, err |-> "UnknownStatistic"]
    ELSE LET sep == separate_inb_vs_oob(stnames)
         IN  [agent |->
                 [a EXCEPT
                     !.inbcoll = [n \in DOMAIN @ |-> [@[n] EXCEPT !.enabled = (n \in sep.inb)]],
                     !.oobcoll = IF a.oob
                         THEN [n \in DOMAIN @ |-> [@[n] EXCEPT !.enabled = (n \in sep.oob)]]
                         ELSE @],
              err |-> "none"]

\* _Collector.get_enabled_stats: the names of a collector's enabled descriptors.
coll_get_enabled_stats(stinfo) == {stname \in DOMAIN stinfo : stinfo[stname].enabled}

\* STCAgent.get_enabled_stats
get_enabled_stats(a) ==
    coll_get_enabled_stats(a.inbcoll) \cup
        (IF a.oob THEN coll_get_enabled_stats(a.oobcoll) ELSE {})

\* The number 0, the one x / 10^e stands for being x.m / 10^x.e.
Zero == [m |-> 0, e |-> 0]

RECURSIVE Pow10(_)
Pow10(e) == IF e = 0 THEN 1 ELSE 10 * Pow10(e - 1)

\* x <= y for two numbers.
Leq(x, y) == x.m * Pow10(y.e) <= y.m * Pow10(x.e)

\* max() of a non-empty set of numbers.
max(S) == CHOOSE x \in S : \A y \in S : Leq(y, x)

\* _Collector.get_max_interval: the largest interval of the enabled
\* statistics of a collector, 0 when none is enabled.
coll_get_max_interval(stinfo) ==
    LET intervals == {stinfo[stname].interval : stname \in coll_get_enabled_stats(stinfo)}
    IN  IF intervals # {} THEN max(intervals) ELSE Zero

\* get_max_interval that asks the in-band collector alone.
get_max_interval_inbonly(a) == coll_get_max_interval(a.inbcoll)

\* STCAgent.get_max_interval
get_max_interval(a) ==
    LET inb_max_interval == coll_get_max_interval(a.inbcoll)
        oob_max_interval == IF a.oob THEN coll_get_max_interval(a.oobcoll) ELSE Zero
    IN  max({inb_max_interval, oob_max_interval})

\* STCAgent._get_stinfo: which collector holds the descriptor of a known
\* statistic, "none" when the lookup raises ErrorNotFound.
get_stinfo(a, stname) ==
    IF stname \in DOMAIN a.inbcoll THEN "inbcoll"
    ELSE IF a.oob THEN "oobcoll"
    ELSE "none"

\* STCAgent.set_toolpath: the agent and the error after the call.
set_toolpath(a, stname, path) ==
    IF ~check_stname(stname) THEN [agent |-> a, err |-> "UnknownStatistic"]
    ELSE LET coll == get_stinfo(a, stname)
         IN  IF coll = "none" THEN [agent |-> a, err |-> "ErrorNotFound"]
             ELSE [agent |-> [a EXCEPT ![coll][stname].toolpath = path], err |-> "none"]

\* The values a property is given: a Python string or a Python integer.
StrValue(s) == [type |-> "str", s |-> s, n |-> 0]
IntValue(n) == [type |-> "int", s |-> "", n |-> n]

\* str(value): a string is itself, an integer is its decimal digits.
str(value) == IF value.type = "str" THEN value.s ELSE ToString(value.n)

\* set_prop that gives the value to every property of the statistic.
set_prop_allprops(a, stname, name, value) ==
    IF ~check_stname(stname) THEN [agent |-> a, err |-> "UnknownStatistic", known |-> {}]
    ELSE LET coll == get_stinfo(a, stname)
         IN  IF coll = "none" THEN [agent |-> a, err |-> "ErrorNotFound", known |-> {}]
             ELSE LET props == a[coll][stname].props
                  IN  IF name \notin DOMAIN props
                      THEN [agent |-> a, err |-> "UnknownProperty", known |-> DOMAIN props]
                      ELSE [agent |-> [a EXCEPT ![coll][stname].props =
                                          [k \in DOMAIN props |-> str(value)]],
                            err |-> "none", known |-> {}]

\* STCAgent.set_prop: the agent and the error after the call, and the
\* property names the message of the unknown-property error lists.
set_prop(a, stname, name, value) ==
    IF ~check_stname(stname) THEN [agent |-> a, err |-> "UnknownStatistic", known |-> {}]
    ELSE LET coll == get_stinfo(a, stname)
         IN  IF coll = "none" THEN [agent |-> a, err |-> "ErrorNotFound", known |-> {}]
             ELSE LET props == a[coll][stname].props
                  IN  IF name \notin DOMAIN props
                      THEN [agent |-> a, err |-> "UnknownProperty",
                            known |-> IF DOMAIN props # {} THEN DOMAIN props ELSE {}]
                      ELSE [agent |-> [a EXCEPT ![coll][stname].props[name] = str(value)],
                            err |-> "none", known |-> {}]

\* _Collector.set_intervals: every interval must be a positive number; the
\* intervals are stored in the descriptors and those of the enabled
\* statistics are returned.
coll_set_intervals(stinfo, intervals) ==
    IF \E stname \in DOMAIN intervals : intervals[stname].m <= 0
    THEN [stinfo |-> stinfo, err |-> "BadInterval", intervals |-> EmptyMap]
    ELSE [stinfo |-> [n \in DOMAIN stinfo |->
                         IF n \in DOMAIN intervals
                         THEN [stinfo[n] EXCEPT !.interval = intervals[n]]
                         ELSE stinfo[n]],
          err |-> "none",
          intervals |-> [n \in {k \in DOMAIN intervals : stinfo[k].enabled} |-> intervals[n]]]

\* set_intervals that returns the dictionary of the in-band collector alone.
set_intervals_inbret(a, intervals) ==
    IF ~check_stnames(DOMAIN intervals)
    THEN [agent |-> a, err |-> "UnknownStatistic", intervals |-> EmptyMap]
    ELSE LET sep == separate_inb_vs_oob(DOMAIN intervals)
             inb == coll_set_intervals(a.inbcoll, [n \in sep.inb |-> intervals[n]])
             oob == coll_set_intervals(a.oobcoll, [n \in sep.oob |-> intervals[n]])
         IN  IF inb.err # "none"
             THEN [agent |-> a, err |-> inb.err, intervals |-> EmptyMap]
             ELSE IF ~a.oob
             THEN [agent |-> [a EXCEPT !.inbcoll = inb.stinfo], err |-> "none",
                   intervals |-> inb.intervals]
             ELSE IF oob.err # "none"
             THEN [agent |-> [a EXCEPT !.inbcoll = inb.stinfo], err |-> oob.err,
                   intervals |-> EmptyMap]
             ELSE [agent |-> [a EXCEPT !.inbcoll = inb.stinfo, !.oobcoll = oob.stinfo],
                   err |-> "none",
                   intervals |-> inb.intervals]

\* STCAgent.set_intervals: the agent, the error and the returned dictionary.
set_intervals(a, intervals) ==
    IF ~check_stnames(DOMAIN intervals)
    THEN [agent |-> a, err |-> "UnknownStatistic", intervals |-> EmptyMap]
    ELSE LET sep == separate_inb_vs_oob(DOMAIN intervals)
             inb == coll_set_intervals(a.inbcoll, [n \in sep.inb |-> intervals[n]])
             oob == coll_set_intervals(a.oobcoll, [n \in sep.oob |-> intervals[n]])
         IN  IF inb.err # "none"
             THEN [agent |-> a, err |-> inb.err, intervals |-> EmptyMap]
             ELSE IF ~a.oob
             THEN [agent |-> [a EXCEPT !.inbcoll = inb.stinfo], err |-> "none",
                   intervals |-> inb.intervals]
             ELSE IF oob.err # "none"
             THEN [agent |-> [a EXCEPT !.inbcoll = inb.stinfo], err |-> oob.err,
                   intervals |-> EmptyMap]
             ELSE [agent |-> [a EXCEPT !.inbcoll = inb.stinfo, !.oobcoll = oob.stinfo],
                   err |-> "none",
                   intervals |-> inb.intervals @@ oob.intervals]

\* One step of a call: the collector it goes to, the command, whether the
\* command succeeded, and the names it returned.
Step(coll, call, ok, ret) == [coll |-> coll, call |-> call, ok |-> ok, ret |-> ret]

\* No collector is sampling.
NotRunning == [inb |-> FALSE, oob |-> FALSE]

\* The collector whose command fails during a call, "none" when none does.
FailArgs == {"none", "inbcoll", "oobcoll"}

\* _Collector.discover: the sets it may return, some of the collector's
\* enabled statistics.
coll_discover(stinfo) == SUBSET coll_get_enabled_stats(stinfo)

\* _handle_conflicting_stats that disables 'ipmi' in favour of 'ipmi-inband'.
handle_conflicting_stats_disableoob(a) ==
    IF ~a.oob THEN a
    ELSE IF a.inbcoll[ipmi_inband].enabled /\ a.oobcoll[ipmi].enabled
    THEN [a EXCEPT !.oobcoll[ipmi].enabled = FALSE]
    ELSE a

\* _handle_conflicting_stats that flips 'ipmi-inband' whenever 'ipmi' is
\* enabled.
handle_conflicting_stats_toggle(a) ==
    IF ~a.oob THEN a
    ELSE IF a.oobcoll[ipmi].enabled
    THEN [a EXCEPT !.inbcoll[ipmi_inband].enabled = ~@]
    ELSE a

\* _handle_conflicting_stats that does not look whether the out-of-band
\* collector exists: without it 'ipmi-inband' is disabled all the same.
handle_conflicting_stats_local(a) ==
    IF a.inbcoll[ipmi_inband].enabled /\ (~a.oob \/ a.oobcoll[ipmi].enabled)
    THEN [a EXCEPT !.inbcoll[ipmi_inband].enabled = FALSE]
    ELSE a

\* STCAgent._handle_conflicting_stats: the agent after the call.
handle_conflicting_stats(a) ==
    IF ~a.oob THEN a
    ELSE IF a.inbcoll[ipmi_inband].enabled /\ a.oobcoll[ipmi].enabled
    THEN [a EXCEPT !.inbcoll[ipmi_inband].enabled = FALSE]
    ELSE a

\* configure that configures the in-band collector before it handles the
\* conflicting statistics.
configure_collfirst(a, fail) ==
    LET a1 == handle_conflicting_stats(a)
        s1 == Step("facade", "_handle_conflicting_stats", TRUE,
                   get_enabled_stats(a) \ get_enabled_stats(a1))
        s2 == Step("inbcoll", "configure", fail # "inbcoll", {})
        s3 == Step("oobcoll", "configure", fail # "oobcoll", {})
    IN  IF ~s2.ok THEN [agent |-> a, err |-> "CollectionError", trace |-> <<s2>>]
        ELSE IF ~a.oob THEN [agent |-> a1, err |-> "none", trace |-> <<s2, s1>>]
        ELSE [agent |-> a1, err |-> IF s3.ok THEN "none" ELSE "CollectionError",
              trace |-> <<s2, s1, s3>>]

\* STCAgent.configure: the agent, the error and the steps of the call. The
\* step of _handle_conflicting_stats carries the names it disabled.
configure(a, fail) ==
    LET a1 == handle_conflicting_stats(a)
        s1 == Step("facade", "_handle_conflicting_stats", TRUE,
                   get_enabled_stats(a) \ get_enabled_stats(a1))
        s2 == Step("inbcoll", "configure", fail # "inbcoll", {})
        s3 == Step("oobcoll", "configure", fail # "oobcoll", {})
    IN  IF ~s2.ok THEN [agent |-> a1, err |-> "CollectionError", trace |-> <<s1, s2>>]
        ELSE IF ~a.oob THEN [agent |-> a1, err |-> "none", trace |-> <<s1, s2>>]
        ELSE [agent |-> a1, err |-> IF s3.ok THEN "none" ELSE "CollectionError",
              trace |-> <<s1, s2, s3>>]

\* discover that returns what the in-band collector discovered.
discover_inbonly(a, inb_found, oob_found, fail) ==
    LET s1 == Step("inbcoll", "discover", fail # "inbcoll",
                   IF fail # "inbcoll" THEN inb_found ELSE {})
        s2 == Step("oobcoll", "discover", fail # "oobcoll",
                   IF fail # "oobcoll" THEN oob_found ELSE {})
    IN  IF ~s1.ok THEN [err |-> "CollectionError", trace |-> <<s1>>, stnames |-> {}]
        ELSE IF ~a.oob THEN [err |-> "none", trace |-> <<s1>>, stnames |-> s1.ret]
        ELSE IF ~s2.ok THEN [err |-> "CollectionError", trace |-> <<s1, s2>>, stnames |-> {}]
        ELSE [err |-> "none", trace |-> <<s1, s2>>, stnames |-> s1.ret]

\* STCAgent.discover: the error, the steps of the call and the returned set,
\* when the collectors discover inb_found and oob_found.
discover(a, inb_found, oob_found, fail) ==
    LET s1 == Step("inbcoll", "discover", fail # "inbcoll",
                   IF fail # "inbcoll" THEN inb_found ELSE {})
        s2 == Step("oobcoll", "discover", fail # "oobcoll",
                   IF fail # "oobcoll" THEN oob_found ELSE {})
    IN  IF ~s1.ok THEN [err |-> "CollectionError", trace |-> <<s1>>, stnames |-> {}]
        ELSE IF ~a.oob THEN [err |-> "none", trace |-> <<s1>>, stnames |-> s1.ret]
        ELSE IF ~s2.ok THEN [err |-> "CollectionError", trace |-> <<s1, s2>>, stnames |-> {}]
        ELSE [err |-> "none", trace |-> <<s1, s2>>, stnames |-> s1.ret \cup s2.ret]

\* STCAgent.start: which collectors are sampling, the error and the steps of
\* the call. A collector whose start() succeeded is sampling.
start(a, run, fail) ==
    LET s1 == Step("inbcoll", "start", fail # "inbcoll", {})
        s2 == Step("oobcoll", "start", fail # "oobcoll", {})
    IN  IF ~s1.ok THEN [running |-> run, err |-> "CollectionError", trace |-> <<s1>>]
        ELSE IF ~a.oob
        THEN [running |-> [run EXCEPT !.inb = TRUE], err |-> "none", trace |-> <<s1>>]
        ELSE IF ~s2.ok
        THEN [running |-> [run EXCEPT !.inb = TRUE], err |-> "CollectionError",
              trace |-> <<s1, s2>>]
        ELSE [running |-> [run EXCEPT !.inb = TRUE, !.oob = TRUE], err |-> "none",
              trace |-> <<s1, s2>>]

\* stop whose collectors fail when they are not sampling.
stop_needstart(a, run, fail) ==
    LET s1 == Step("inbcoll", "stop", run.inb /\ fail # "inbcoll", {})
        s2 == Step("oobcoll", "stop", run.oob /\ fail # "oobcoll", {})
    IN  IF ~s1.ok THEN [running |-> run, err |-> "CollectionError", trace |-> <<s1>>]
        ELSE IF ~a.oob
        THEN [running |-> [run EXCEPT !.inb = FALSE], err |-> "none", trace |-> <<s1>>]
        ELSE IF ~s2.ok
        THEN [running |-> [run EXCEPT !.inb = FALSE], err |-> "CollectionError",
              trace |-> <<s1, s2>>]
        ELSE [running |-> [run EXCEPT !.inb = FALSE, !.oob = FALSE], err |-> "none",
              trace |-> <<s1, s2>>]

\* STCAgent.stop: which collectors are sampling, the error and the steps of
\* the call. A collector whose stop() succeeded is not sampling; the stop()
\* of a collector that is not sampling does nothing and cannot fail.
stop(a, run, fail) ==
    LET s1 == Step("inbcoll", "stop", ~run.inb \/ fail # "inbcoll", {})
        s2 == Step("oobcoll", "stop", ~run.oob \/ fail # "oobcoll", {})
    IN  IF ~s1.ok THEN [running |-> run, err |-> "CollectionError", trace |-> <<s1>>]
        ELSE IF ~a.oob
        THEN [running |-> [run EXCEPT !.inb = FALSE], err |-> "none", trace |-> <<s1>>]
        ELSE IF ~s2.ok
        THEN [running |-> [run EXCEPT !.inb = FALSE], err |-> "CollectionError",
              trace |-> <<s1, s2>>]
        ELSE [running |-> [run EXCEPT !.inb = FALSE, !.oob = FALSE], err |-> "none",
              trace |-> <<s1, s2>>]

\* close that closes the in-band collector first.
close_inbfirst(a, run) ==
    [agent |-> [a EXCEPT !.oob = FALSE, !.oobcoll = EmptyMap,
                         !.inb = FALSE, !.inbcoll = EmptyMap, !.pman = FALSE],
     running |-> NotRunning,
     err |-> "none",
     trace |-> (IF a.inb THEN <<Step("inbcoll", "close", TRUE, {})>> ELSE <<>>) \o
               (IF a.oob THEN <<Step("oobcoll", "close", TRUE, {})>> ELSE <<>>) \o
               <<Step("pman", "unref", TRUE, {})>>]

\* STCAgent.close: the collectors that exist are closed, the out-of-band one
\* first, and the three attributes are set to None, '_pman' last.
close(a, run) ==
    [agent |-> [a EXCEPT !.oob = FALSE, !.oobcoll = EmptyMap,
                         !.inb = FALSE, !.inbcoll = EmptyMap, !.pman = FALSE],
     running |-> NotRunning,
     err |-> "none",
     trace |-> (IF a.oob THEN <<Step("oobcoll", "close", TRUE, {})>> ELSE <<>>) \o
               (IF a.inb THEN <<Step("inbcoll", "close", TRUE, {})>> ELSE <<>>) \o
               <<Step("pman", "unref", TRUE, {})>>]

----------------------------------------------------------------------------
(* STCHelpers: applying a configuration to a StatsCollect object *)

\* StatsCollect.set_enabled_stats("all") and set_disabled_stats("all"): every
\* statistic of the catalog is enabled, or disabled.
stcoll_enable_all(a) == set_enabled_stats(a, StNames)
stcoll_disable_all(a) == set_disabled_stats(a, StNames)

\* What may go wrong during one run of a helper: a command of a collector
\* fails during discover() or configure(), or the path of the agent program
\* is not found.
SetupFailArgs ==
    {[call |-> "none", coll |-> "none"]} \cup
    [call : {"discover", "configure"}, coll : {"inbcoll", "oobcoll"}] \cup
    {[call |-> "path", coll |-> "none"]}

\* The collector whose command fails during 'call'.
FailOf(fail, call) == IF fail.call = call THEN fail.coll ELSE "none"

\* A helper on its way through its calls on stcoll: the StatsCollect object,
\* the error raised so far, the calls made, the value of 'discovered' and of
\* 'not_found', and whether stcoll is what the helper returns.
Begin(a, made) ==
    [agent |-> a, err |-> "none", log |-> made, discovered |-> {}, not_found |-> {},
     returned |-> FALSE]

\* A call on stcoll as the log keeps it: its name, the statistics enabled
\* when it was made, the intervals it was given, whether it returned.
Entry(call, a, intervals, ok) ==
    [call |-> call, enabled |-> get_enabled_stats(a), intervals |-> intervals, ok |-> ok]

\* The next statement, a call on stcoll with the result r; it is not
\* reached when an earlier statement raised.
Do(st, call, r) ==
    IF st.err # "none" THEN st
    ELSE [st EXCEPT !.agent = r.agent, !.err = r.err,
                    !.log = Append(@, Entry(call, st.agent, EmptyMap, r.err = "none"))]

\* The value of a statement: the one element of S. A statement is worked
\* out once for the state it starts in.
Once(S) == CHOOSE r \in S : TRUE

\* stcoll.set_enabled_stats(stnames) and stcoll.set_disabled_stats(stnames)
DoEnable(st, stnames) ==
    Once({Do(s, "set_enabled_stats", set_enabled_stats(s.agent, stnames)) : s \in {st}})
DoDisable(st, stnames) ==
    Once({Do(s, "set_disabled_stats", set_disabled_stats(s.agent, stnames)) : s \in {st}})

\* stcoll.set_enabled_stats("all") and stcoll.set_disabled_stats("all")
DoEnableAll(st) ==
    Once({Do(s, "set_enabled_stats", stcoll_enable_all(s.agent)) : s \in {st}})
DoDisableAll(st) ==
    Once({Do(s, "set_disabled_stats", stcoll_disable_all(s.agent)) : s \in {st}})

\* stcoll.set_enabled_stats(discovered)
DoEnableDiscovered(st) ==
    Once({Do(s, "set_enabled_stats", set_enabled_stats(s.agent, s.discovered)) : s \in {st}})

\* set_enabled_stats(stnames) that leaves the other statistics as they are.
DoEnable_keepothers(st, stnames) ==
    Once({Do(s, "set_enabled_stats", set_enabled_stats_keepothers(s.agent, stnames)) : s \in {st}})

\* stcoll.set_intervals(intervals)
DoSetIntervals(st, intervals) ==
    Once({ IF s.err # "none" THEN s
           ELSE LET r == set_intervals(s.agent, intervals)
                IN  [s EXCEPT !.agent = r.agent, !.err = r.err,
                               !.log = Append(@, Entry("set_intervals", s.agent, intervals,
                                                       r.err = "none"))]
          : s \in {st} })

\* discovered = stcoll.discover(), when the statistics of 'avail' are the
\* ones that can be collected.
DoDiscover(st, avail, fail) ==
    Once({ IF s.err # "none" THEN s
           ELSE LET r == discover(s.agent, coll_get_enabled_stats(s.agent.inbcoll) \cap avail,
                                  coll_get_enabled_stats(s.agent.oobcoll) \cap avail, fail)
                IN  [s EXCEPT !.err = r.err, !.discovered = r.stnames,
                               !.log = Append(@, Entry("discover", s.agent, EmptyMap,
                                                       r.err = "none"))]
          : s \in {st} })

\* The test of 'not_found' that lets every discovery pass.
DoCheck_pass(st, include) == st

\* not_found = include - (discovered & include), and the error it raises.
DoCheck(st, include) ==
    Once({ IF s.err # "none" THEN s
           ELSE LET not_found == include \ (s.discovered \cap include)
                IN  IF not_found # {}
                    THEN [s EXCEPT !.err = "StatisticsUnavailable", !.not_found = not_found]
                    ELSE s
          : s \in {st} })

\* stcoll.configure()
DoConfigure(st, fail) ==
    Once({ IF s.err # "none" THEN s
           ELSE LET r == configure(s.agent, fail)
                IN  [s EXCEPT !.agent = r.agent, !.err = r.err,
                               !.log = Append(@, Entry("configure", s.agent, EmptyMap,
                                                       r.err = "none"))]
          : s \in {st} })

\* apply_stconf that enables every statistic again after the discovery.
apply_stconf_reenable(a, stconf, avail, fail) ==
    LET s1 == DoSetIntervals(Begin(a, <<>>), stconf.intervals)
        d1 == DoEnableAll(s1)
        d2 == DoDisable(d1, stconf.exclude)
        d3 == DoDiscover(d2, avail, FailOf(fail, "discover"))
        d4 == DoCheck(d3, stconf.include)
        d5 == DoDisableAll(d4)
        d6 == DoEnableAll(d5)
        e1 == DoDisableAll(s1)
        e2 == DoEnable(e1, stconf.include)
        s2 == DoConfigure(IF stconf.discover THEN d6 ELSE e2, FailOf(fail, "configure"))
    IN  s2

\* apply_stconf that, with no discovery, enables include and leaves the
\* other statistics as they are.
apply_stconf_keepenabled(a, stconf, avail, fail) ==
    LET s1 == DoSetIntervals(Begin(a, <<>>), stconf.intervals)
        d1 == DoEnableAll(s1)
        d2 == DoDisable(d1, stconf.exclude)
        d3 == DoDiscover(d2, avail, FailOf(fail, "discover"))
        d4 == DoCheck(d3, stconf.include)
        d5 == DoDisableAll(d4)
        d6 == DoEnableDiscovered(d5)
        e2 == DoEnable_keepothers(s1, stconf.include)
        s2 == DoConfigure(IF stconf.discover THEN d6 ELSE e2, FailOf(fail, "configure"))
    IN  s2

\* apply_stconf that sets the intervals after configure().
apply_stconf_intervalslast(a, stconf, avail, fail) ==
    LET s1 == Begin(a, <<>>)
        d1 == DoEnableAll(s1)
        d2 == DoDisable(d1, stconf.exclude)
        d3 == DoDiscover(d2, avail, FailOf(fail, "discover"))
        d4 == DoCheck(d3, stconf.include)
        d5 == DoDisableAll(d4)
        d6 == DoEnableDiscovered(d5)
        e1 == DoDisableAll(s1)
        e2 == DoEnable(e1, stconf.include)
        s2 == DoConfigure(IF stconf.discover THEN d6 ELSE e2, FailOf(fail, "configure"))
        s3 == DoSetIntervals(s2, stconf.intervals)
    IN  s3

\* apply_stconf: the StatsCollect object, the error and the calls made, when
\* the statistics of 'avail' can be collected and 'fail' goes wrong.
apply_stconf(a, stconf, avail, fail) ==
    LET s1 == DoSetIntervals(Begin(a, <<>>), stconf.intervals)
        d1 == DoEnableAll(s1)
        d2 == DoDisable(d1, stconf.exclude)
        d3 == DoDiscover(d2, avail, FailOf(fail, "discover"))
        d4 == DoCheck(d3, stconf.include)
        d5 == DoDisableAll(d4)
        d6 == DoEnableDiscovered(d5)
        e1 == DoDisableAll(s1)
        e2 == DoEnable(e1, stconf.include)
        s2 == DoConfigure(IF stconf.discover THEN d6 ELSE e2, FailOf(fail, "configure"))
    IN  s2

\* StatsCollect.is_stcagent_needed: the agent program is needed when some
\* statistic is enabled.
is_stcagent_needed(a) == get_enabled_stats(a) # {}

\* stcoll.set_prop("acpower", "devnode", devnode) when 'acpower' is enabled;
\* its error is suppressed.
DoSetProp(st, is_remote) ==
    Once({ IF s.err # "none" \/ acpower \notin get_enabled_stats(s.agent) THEN s
           ELSE LET devnode == IF is_remote THEN StrValue("hostname") ELSE StrValue("default")
                    r == set_prop(s.agent, acpower, "devnode", devnode)
                IN  [s EXCEPT !.agent = r.agent,
                               !.log = Append(@, Entry("set_prop", s.agent, EmptyMap, r.err = "none"))]
          : s \in {st} })

\* Deploy.get_installed_helper_path for the agent program, when it is needed.
DoPath(st, fail) ==
    Once({ IF s.err # "none" THEN s
           ELSE IF is_stcagent_needed(s.agent) /\ fail.call = "path"
           THEN [s EXCEPT !.err = "ErrorNotFound"]
           ELSE s
          : s \in {st} })

\* The end of create_and_configure_stcoll without the close().
DoReturn_noclose(st) ==
    Once({ IF s.err # "none" THEN s
           ELSE IF get_enabled_stats(s.agent) = {} THEN s
           ELSE [s EXCEPT !.returned = TRUE]
          : s \in {st} })

\* The end of create_and_configure_stcoll: stcoll is closed and None is
\* returned when no statistic is enabled, stcoll is returned otherwise.
DoReturn(st) ==
    Once({ IF s.err # "none" THEN s
           ELSE IF get_enabled_stats(s.agent) = {}
           THEN [s EXCEPT !.agent = close(s.agent, NotRunning).agent,
                           !.log = Append(@, Entry("close", s.agent, EmptyMap, TRUE))]
           ELSE [s EXCEPT !.returned = TRUE]
          : s \in {st} })

\* create_and_configure_stcoll from the creation of stcoll on (lines 155 to
\* 208), with the configuration 'stconf' the builder produced.
create_stcoll(stconf, is_remote, avail, fail) ==
    LET stcoll == NewAgent(is_remote)
        s0 == Begin(stcoll, <<Entry("StatsCollect", stcoll, EmptyMap, TRUE)>>)
        d1 == DoEnableAll(s0)
        d2 == DoDisable(d1, stconf.exclude)
        e1 == DoDisableAll(s0)
        e2 == DoEnable(e1, stconf.include)
        s1 == DoSetProp(IF stconf.discover THEN d2 ELSE e2, is_remote)
        s2 == DoPath(s1, fail)
        d3 == DoDiscover(s2, avail, FailOf(fail, "discover"))
        d4 == DoCheck(d3, stconf.include)
        d5 == DoDisableAll(d4)
        d6 == DoEnableDiscovered(d5)
        d7 == DoEnableAll(d6)
        d8 == DoDisable(d7, stconf.exclude)
        s3 == DoConfigure(IF stconf.discover THEN d8 ELSE s2, FailOf(fail, "configure"))
        s4 == DoReturn(s3)
    IN  s4

\* create_and_configure_stcoll without the early return for an empty
\* statistics string and for "none".
create_and_configure_stcoll_noguard(stnames, intervals, is_remote, avail, fail) ==
    LET p1 == parse_stnames(NewBuilder, stnames)
        p2 == Once({ IF p.err = "none" /\ intervals # <<>>
                     THEN parse_intervals(p.builder, intervals)
                     ELSE p : p \in {p1} })
    IN  Once({ IF p.err # "none"
               THEN [builder |-> p.builder,
                     st |-> [Begin(NoAgent, <<>>) EXCEPT !.err = p.err]]
               ELSE [builder |-> p.builder,
                     st |-> create_stcoll(p.builder, is_remote, avail, fail)]
               : p \in {p2} })

\* create_and_configure_stcoll: the builder it made, and where it ended.
create_and_configure_stcoll(stnames, intervals, is_remote, avail, fail) ==
    IF stnames = <<>> \/ stnames = <<"none">>
    THEN [builder |-> NewBuilder, st |-> Begin(NoAgent, <<>>)]
    ELSE LET p1 == parse_stnames(NewBuilder, stnames)
             p2 == Once({ IF p.err = "none" /\ intervals # <<>>
                          THEN parse_intervals(p.builder, intervals)
                          ELSE p : p \in {p1} })
         IN  Once({ IF p.err # "none"
                    THEN [builder |-> p.builder,
                          st |-> [Begin(NoAgent, <<>>) EXCEPT !.err = p.err]]
                    ELSE [builder |-> p.builder,
                          st |-> create_stcoll(p.builder, is_remote, avail, fail)]
                    : p \in {p2} })

----------------------------------------------------------------------------
(* The builder's calls *)

BuilderInit ==
    /\ builder = NewBuilder
    /\ op = "init"
    /\ arg = <<>>
    /\ err = "none"
    /\ stnames_raised = FALSE
    /\ calls = 0

\* A call of parse_stnames with a string of 'inputs'.
ParseStnames(inputs) ==
    \E s \in inputs :
        LET r == parse_stnames(builder, s)
        IN  /\ calls < MaxCalls
            /\ builder' = r.builder
            /\ err' = r.err
            /\ op' = "parse_stnames"
            /\ arg' = s
            /\ stnames_raised' = (stnames_raised \/ r.err # "none")
            /\ calls' = calls + 1
            /\ UNCHANGED avars

\* A call of parse_intervals with a string of 'inputs'.
ParseIntervals(inputs) ==
    \E s \in inputs :
        LET r == parse_intervals(builder, s)
        IN  /\ calls < MaxCalls
            /\ builder' = r.builder
            /\ err' = r.err
            /\ op' = "parse_intervals"
            /\ arg' = s
            /\ UNCHANGED stnames_raised
            /\ calls' = calls + 1
            /\ UNCHANGED avars

----------------------------------------------------------------------------
(* The agent's calls *)

\* The arguments of the calls: sets of names, a known and an unknown name,
\* a path, property names and values, interval dictionaries.
UnknownName == <<"x">>
StnamesArgs == SUBSET (StNames \cup {UnknownName})
StnameArgs == {turbostat, acpower, UnknownName}
PathArgs == {"/p"}
PropArgs == {"devnode", "bogus"}
ValueArgs == {StrValue("v"), IntValue(5)}
IntervalArgs ==
    UNION {[{n} -> {[m |-> 2, e |-> 0], [m |-> 0, e |-> 0]}] : n \in StnameArgs}
        \cup {[n \in {turbostat, acpower} |-> [m |-> 2, e |-> 0]],
              [n \in {turbostat, UnknownName} |-> [m |-> 2, e |-> 0]]}

\* The arguments of the calls that go with configure, discover, start, stop
\* and close.
LifeStnamesArgs == {{ipmi, ipmi_inband}, {ipmi_inband}, {turbostat, acpower}}
LifeDisabledArgs == {{ipmi}}
LifeStnameArgs == {acpower}
LifePropArgs == {"devnode"}
LifeValueArgs == {StrValue("v")}
LifeIntervalArgs ==
    {[n \in {ipmi, ipmi_inband} |-> [m |-> 2, e |-> 0]],
     [n \in {ipmi_inband} |-> [m |-> 2, e |-> 0]]}

NoArgs == [stnames |-> {}, stname |-> <<>>, name |-> "", value |-> "", intervals |-> EmptyMap]

\* What a call returns when it returns nothing.
NoRet ==
    [stnames |-> {}, intervals |-> EmptyMap, known |-> {}, stcoll |-> FALSE,
     max_interval |-> Zero]

\* No call has been made on the agent.
Idle ==
    /\ aop = "init"
    /\ aarg = NoArgs
    /\ aerr = "none"
    /\ ops = 0
    /\ running = NotRunning
    /\ trace = <<>>
    /\ aret = NoRet
    /\ prev = "init"
    /\ log = <<>>

AgentInit ==
    /\ \E is_remote \in BOOLEAN :
          /\ pman = [is_remote |-> is_remote]
          /\ agent = NewAgent(is_remote)
    /\ Idle

\* One call on the agent: its name and arguments, the agent and the error
\* after it, the collectors then sampling, its steps and what it returned.
\* A method other than close() is not called on a closed agent.
Call(name, args, a, e, run, tr, ret) ==
    /\ ops < MaxOps
    /\ name = "close" \/ agent.inb
    /\ agent' = a
    /\ aerr' = e
    /\ aop' = name
    /\ aarg' = args
    /\ ops' = ops + 1
    /\ running' = run
    /\ trace' = tr
    /\ aret' = ret
    /\ prev' = aop
    /\ UNCHANGED <<pman, log, bvars>>

SetDisabledStats(inputs) ==
    \E stnames \in inputs :
        LET r == set_disabled_stats(agent, stnames)
        IN  Call("set_disabled_stats", [NoArgs EXCEPT !.stnames = stnames],
                 r.agent, r.err, running, <<>>, NoRet)

SetEnabledStats(inputs) ==
    \E stnames \in inputs :
        LET r == set_enabled_stats(agent, stnames)
        IN  Call("set_enabled_stats", [NoArgs EXCEPT !.stnames = stnames],
                 r.agent, r.err, running, <<>>, NoRet)

SetToolpath(stnames) ==
    \E stname \in stnames, path \in PathArgs :
        LET r == set_toolpath(agent, stname, path)
        IN  Call("set_toolpath", [NoArgs EXCEPT !.stname = stname, !.value = path],
                 r.agent, r.err, running, <<>>, NoRet)

SetProp(stnames, names, values) ==
    \E stname \in stnames, name \in names, value \in values :
        LET r == set_prop(agent, stname, name, value)
        IN  Call("set_prop", [NoArgs EXCEPT !.stname = stname, !.name = name, !.value = value],
                 r.agent, r.err, running, <<>>, [NoRet EXCEPT !.known = r.known])

SetIntervals(inputs) ==
    \E intervals \in inputs :
        LET r == set_intervals(agent, intervals)
        IN  Call("set_intervals", [NoArgs EXCEPT !.intervals = intervals],
                 r.agent, r.err, running, <<>>, [NoRet EXCEPT !.intervals = r.intervals])

\* The output directories the constructor is given: none, an absolute path,
\* a relative path.
OutdirArgs == { <<>>, <<"/", "out">>, <<"out">> }

\* STCAgent(pman, local_outdir=..., remote_outdir=...): the first thing that
\* happens to an agent.
Construct ==
    \E local_outdir \in OutdirArgs, remote_outdir \in OutdirArgs :
        LET r == init(pman.is_remote, local_outdir, remote_outdir)
        IN  /\ aop = "init"
            /\ agent' = r.agent
            /\ aerr' = r.err
            /\ aop' = "__init__"
            /\ aarg' = [local_outdir |-> local_outdir, remote_outdir |-> remote_outdir]
            /\ prev' = aop
            /\ UNCHANGED <<ops, running, trace, aret, pman, log, bvars>>

GetMaxInterval ==
    Call("get_max_interval", NoArgs, agent, "none", running, <<>>,
         [NoRet EXCEPT !.max_interval = get_max_interval(agent)])

Configure ==
    \E fail \in FailArgs :
        LET r == configure(agent, fail)
        IN  Call("configure", NoArgs, r.agent, r.err, running, r.trace, NoRet)

\* discover() that resolves the conflicting statistics as configure() does.
Discover_resolving ==
    \E fail \in FailArgs,
       inb_found \in coll_discover(agent.inbcoll), oob_found \in coll_discover(agent.oobcoll) :
        LET r == discover(agent, inb_found, oob_found, fail)
        IN  Call("discover", NoArgs, handle_conflicting_stats(agent), r.err, running, r.trace,
                 [NoRet EXCEPT !.stnames = r.stnames])

Discover ==
    \E fail \in FailArgs,
       inb_found \in coll_discover(agent.inbcoll), oob_found \in coll_discover(agent.oobcoll) :
        LET r == discover(agent, inb_found, oob_found, fail)
        IN  Call("discover", NoArgs, agent, r.err, running, r.trace,
                 [NoRet EXCEPT !.stnames = r.stnames])

Start ==
    \E fail \in FailArgs :
        LET r == start(agent, running, fail)
        IN  Call("start", NoArgs, agent, r.err, r.running, r.trace, NoRet)

Stop ==
    \E fail \in FailArgs :
        LET r == stop(agent, running, fail)
        IN  Call("stop", NoArgs, agent, r.err, r.running, r.trace, NoRet)

Close ==
    LET r == close(agent, running)
    IN  Call("close", NoArgs, r.agent, r.err, r.running, r.trace, NoRet)

\* The strings and the collectible statistics the helpers are tried with.
SetupStnamesInputs ==
    { <<"all">>, Join(<<(<<"all">>), turbostat>>, ","),
      Join(<<(<<"all">>), <<"!">> \o turbostat>>, ","),
      turbostat, Join(<<turbostat, acpower>>, ","), <<"!">> \o acpower,
      Join(<<ipmi, ipmi_inband>>, ","), <<"none">>, <<>>, <<"x">> }
SetupIntervalsInputs ==
    { <<>>, turbostat \o <<":", "1">>, turbostat \o <<":", "0">> }
AvailArgs == { StNames, {turbostat}, {turbostat, ipmi, ipmi_inband}, {} }
SetupEnabledArgs == { {turbostat, acpower}, {ipmi, ipmi_inband} }

\* A helper of STCHelpers has run.
HelperNames == {"apply_stconf", "create_and_configure_stcoll"}
Done == aop \in HelperNames

\* One run of a helper: its name, the statistics that could be collected,
\* where it ended and which collectors are then sampling. The run of one
\* helper is followed.
Helper(name, avail, st, run) ==
    /\ ~Done
    /\ agent' = st.agent
    /\ aerr' = st.err
    /\ aop' = name
    /\ aarg' = [NoArgs EXCEPT !.stnames = avail]
    /\ ops' = ops + 1
    /\ running' = run
    /\ trace' = <<>>
    /\ aret' = [NoRet EXCEPT !.stnames = st.not_found, !.stcoll = st.returned]
    /\ prev' = aop
    /\ log' = st.log

\* apply_stconf(stcoll, stconf) on the agent, with the configuration the
\* builder holds.
ApplyStconf ==
    \E avail \in AvailArgs, fail \in SetupFailArgs :
        LET stconf == [include |-> builder.include, exclude |-> builder.exclude,
                       discover |-> builder.discover, intervals |-> builder.intervals]
        IN  /\ agent.inb
            /\ \E st \in {apply_stconf(agent, stconf, avail, fail)} :
                /\ Helper("apply_stconf", avail, st, running)
                /\ UNCHANGED <<pman, bvars>>

\* create_and_configure_stcoll(stnames, intervals, outdir, pman)
CreateAndConfigureStcoll ==
    \E stnames \in SetupStnamesInputs, intervals \in SetupIntervalsInputs,
       avail \in AvailArgs, fail \in SetupFailArgs :
        \E r \in {create_and_configure_stcoll(stnames, intervals, pman.is_remote, avail, fail)} :
            /\ Helper("create_and_configure_stcoll", avail, r.st, NotRunning)
            /\ builder' = r.builder
            /\ op' = "create_and_configure_stcoll"
            /\ arg' = stnames
            /\ err' = r.st.err
            /\ UNCHANGED <<pman, stnames_raised, calls>>

----------------------------------------------------------------------------
(* Specifications *)

Init ==
    /\ BuilderInit
    /\ agent = NoAgent
    /\ pman = [is_remote |-> FALSE]
    /\ Idle

\* Calls following one another on one builder.
Next ==
    \/ ParseStnames(StnamesCoreInputs)
    \/ ParseIntervals(IntervalsCoreInputs)

Spec == Init /\ [][Next]_vars

\* The first call on a fresh builder.
NextFresh ==
    \/ calls = 0 /\ ParseStnames(StnamesInputs)
    \/ calls = 0 /\ ParseIntervals(IntervalsInputs)

SpecFresh == Init /\ [][NextFresh]_vars

\* Calls following one another on one agent.
NextAgent ==
    \/ SetDisabledStats(StnamesArgs)
    \/ SetEnabledStats(StnamesArgs)
    \/ SetToolpath(StnameArgs)
    \/ SetProp(StnameArgs, PropArgs, ValueArgs)
    \/ SetIntervals(IntervalArgs)

InitAgent == BuilderInit /\ AgentInit

SpecAgent == InitAgent /\ [][NextAgent]_vars

\* The calls of a session, one after another on one agent.
NextLife ==
    \/ SetDisabledStats(LifeDisabledArgs)
    \/ SetEnabledStats(LifeStnamesArgs)
    \/ SetToolpath(LifeStnameArgs)
    \/ SetProp(LifeStnameArgs, LifePropArgs, LifeValueArgs)
    \/ SetIntervals(LifeIntervalArgs)
    \/ GetMaxInterval
    \/ Configure
    \/ Discover
    \/ Start
    \/ Stop
    \/ Close

SpecLife == InitAgent /\ [][NextLife]_vars

\* An agent is constructed, and when that succeeds a session follows.
InitCtor ==
    /\ BuilderInit
    /\ agent = NoAgent
    /\ pman \in [is_remote : BOOLEAN]
    /\ Idle

NextCtor ==
    \/ Construct
    \/ aop # "init" /\ NextLife

SpecCtor == InitCtor /\ [][NextCtor]_vars

\* A builder is filled and its configuration applied to an agent, or
\* create_and_configure_stcoll does all of it.
NextSetup ==
    \/ ops = 0 /\ calls = 0 /\ SetEnabledStats(SetupEnabledArgs)
    \/ ~Done /\ ParseStnames(SetupStnamesInputs)
    \/ ~Done /\ ParseIntervals(SetupIntervalsInputs)
    \/ ApplyStconf
    \/ ops = 0 /\ calls = 0 /\ CreateAndConfigureStcoll

SpecSetup == InitAgent /\ [][NextSetup]_vars

----------------------------------------------------------------------------
(* What the claims speak of *)

\* The tokens of a selection string and the entries of an intervals string.
Tokens(s) == split_csv_line(s, ",")
Entries(s) == split_csv_line(s, ",")

\* The fields of one intervals entry.
Fields(e) == split_csv_line(e, ":")

IsExcluded(t) == t # <<>> /\ Head(t) = "!"
StripBang(t) == IF IsExcluded(t) THEN Tail(t) ELSE t

\* Some name is given both plain and with the "!" prefix.
PlainAndExcluded(s) ==
    LET toks == Tokens(s)
    IN  \E i, j \in 1..Len(toks) :
            /\ ~IsExcluded(toks[i])
            /\ toks[i] # <<"all">>
            /\ toks[j] = <<"!">> \o toks[i]

\* Some token other than "all" names no statistic of the catalog.
UnknownToken(s) ==
    LET toks == Tokens(s)
    IN  \E i \in 1..Len(toks) : toks[i] # <<"all">> /\ StripBang(toks[i]) \notin StNames

\* An entry that does not split into exactly two fields; one whose interval
\* field is no number; one whose name is unknown; one parse_intervals rejects.
ShapeBad(e) == Len(Fields(e)) # 2
ValueBad(e) == Len(Fields(e)) = 2 /\ ~is_float(Fields(e)[2])
NameBad(e) == Len(Fields(e)) = 2 /\ Fields(e)[1] \notin StNames
Rejected(e) ==
    LET f == Fields(e)
    IN  Len(f) # 2 \/ f[1] \notin StNames \/ ~is_float(f[2])

RECURSIVE Accepted(_)
\* The number of entries at the head of es that parse_intervals accepts.
Accepted(es) == IF es = <<>> \/ Rejected(Head(es)) THEN 0 ELSE 1 + Accepted(Tail(es))

\* The index of the first entry parse_intervals rejects, Len(es) + 1 when it
\* accepts them all.
FirstRejected(es) == Accepted(es) + 1

Max(S) == CHOOSE x \in S : \A y \in S : y <= x

\* The dictionary 'old' after the first k entries of es were stored, the
\* last entry of a name deciding its value.
Stored(old, es, k) ==
    LET fs == [i \in 1..k |-> Fields(es[i])]
    IN  [n \in DOMAIN old \cup {fs[i][1] : i \in 1..k} |->
            LET named == {i \in 1..k : fs[i][1] = n}
            IN  IF named # {} THEN float(fs[Max(named)][2]) ELSE old[n]]

\* The grammar entry(,entry)* with entry = name:floatvalue, known names.
Numeric(t) == is_float(t) /\ \A i \in 1..Len(t) : t[i] # Space
WellFormed(s) ==
    /\ s # <<>>
    /\ \A e \in {split(s, ",")[i] : i \in 1..Len(split(s, ","))} :
          LET f == split(e, ":")
          IN  Len(f) = 2 /\ f[1] \in StNames /\ Numeric(f[2])

F(n) == [m |-> n, e |-> 0]

----------------------------------------------------------------------------
(* Claims about the builder *)

\* C1: parse_stnames on a fresh builder: when the call returns normally,
\* include and exclude are disjoint; when some name is given both plain and
\* with the "!" prefix, the call raises the conflicting-selection error.
C1_FreshDisjointOrConflict ==
    (op = "parse_stnames" /\ calls = 1) =>
        /\ err = "none" => builder.include \cap builder.exclude = {}
        /\ PlainAndExcluded(arg) => err = "ConflictingSelection"

C1_Witness ==
    /\ op = "parse_stnames" /\ calls = 1
    /\ PlainAndExcluded(arg)
    /\ err = "ConflictingSelection"

Clean(b) ==
    /\ b.include \cap b.exclude = {}
    /\ b.include \subseteq StNames
    /\ b.exclude \subseteq StNames
    /\ DOMAIN b.intervals \subseteq StNames

\* C2 as stated: in every reachable state of a builder, also after calls
\* that raised, include and exclude are disjoint and every name in include,
\* exclude and intervals is a catalog name.
C2_AlwaysClean == Clean(builder)

\* C2 as amended: every name in intervals is a catalog name in every
\* reachable state, also after calls that raised; include and exclude are
\* disjoint and hold only catalog names as long as no parse_stnames call
\* has raised.
C2_CleanUnlessStnamesRaised ==
    /\ DOMAIN builder.intervals \subseteq StNames
    /\ ~stnames_raised => Clean(builder)

C2_Witness ==
    /\ op = "parse_intervals" /\ err # "none" /\ ~stnames_raised
    /\ builder.include # {}
    /\ DOMAIN builder.intervals # {}

\* C3: a successful parse_stnames on a fresh builder sets discover iff some
\* token is "all", exclude to the "!" tokens without the prefix and include
\* to the remaining tokens; "all" alone gives discover with both sets empty,
\* "!ipmi,acpower" gives exclude = {ipmi}, include = {acpower}, no discover.
C3_FreshClassification ==
    (op = "parse_stnames" /\ calls = 1) =>
        LET toks == Tokens(arg)
        IN  /\ err = "none" =>
                /\ builder.discover = (\E i \in 1..Len(toks) : toks[i] = <<"all">>)
                /\ builder.exclude =
                       {Tail(toks[i]) : i \in {k \in 1..Len(toks) : IsExcluded(toks[k])}}
                /\ builder.include =
                       {toks[i] : i \in {k \in 1..Len(toks) :
                                           ~IsExcluded(toks[k]) /\ toks[k] # <<"all">>}}
            /\ arg = <<"all">> =>
                /\ err = "none"
                /\ builder.discover /\ builder.include = {} /\ builder.exclude = {}
            /\ arg = <<"!", "ipmi", ",", "acpower">> =>
                /\ err = "none"
                /\ ~builder.discover
                /\ builder.exclude = {ipmi} /\ builder.include = {acpower}

C3_Witness ==
    /\ op = "parse_stnames" /\ calls = 1 /\ err = "none"
    /\ arg = <<"!", "ipmi", ",", "acpower">>
    /\ builder.exclude = {ipmi}

\* C4 as stated: parse_stnames raises the unknown-statistic error whenever a
\* token other than "all" is, without its "!", no catalog name;
\* parse_intervals raises it whenever the name of an entry it comes to (the
\* entries before it accepted) is no catalog name.
C4_UnknownAlwaysReported ==
    /\ (op = "parse_stnames" /\ UnknownToken(arg)) => err = "UnknownStatistic"
    /\ op = "parse_intervals" =>
           LET es == Entries(arg)
               k == FirstRejected(es)
           IN  (k <= Len(es) /\ NameBad(es[k])) => err = "UnknownStatistic"

\* C4 as amended: parse_stnames raises an error whenever such a token is
\* given: the conflicting-selection error when include and exclude overlap,
\* which is checked first, the unknown-statistic error otherwise.
\* parse_intervals raises an error whenever an entry's name is no catalog
\* name: the unknown-statistic error when that entry is the first one the
\* call rejects, the error of the earlier rejected entry otherwise.
C4_UnknownReportedInOrder ==
    /\ (op = "parse_stnames" /\ UnknownToken(arg)) =>
           err = IF builder.include \cap builder.exclude # {}
                 THEN "ConflictingSelection" ELSE "UnknownStatistic"
    /\ op = "parse_intervals" =>
           LET es == Entries(arg)
               k == FirstRejected(es)
           IN  /\ (\E i \in 1..Len(es) : NameBad(es[i])) => err # "none"
               /\ (k <= Len(es) /\ NameBad(es[k])) => err = "UnknownStatistic"

C4_Witness ==
    /\ op = "parse_stnames" /\ UnknownToken(arg)
    /\ err = "UnknownStatistic" /\ calls = 2

\* C5: parse_intervals on a fresh builder, given well-formed entries with
\* known names and numeric values, yields the map whose keys are the names
\* that appear and whose values are those of each name's last entry;
\* "acpower:5.0,turbostat:1" gives {acpower: 5.0, turbostat: 1.0}.
C5_FreshIntervalsLastWins ==
    (op = "parse_intervals" /\ calls = 1) =>
        /\ WellFormed(arg) =>
              LET es == split(arg, ",")
                  name(i) == split(es[i], ":")[1]
                  last(n) == Max({i \in 1..Len(es) : name(i) = n})
              IN  /\ err = "none"
                  /\ DOMAIN builder.intervals = {name(i) : i \in 1..Len(es)}
                  /\ \A n \in DOMAIN builder.intervals :
                        builder.intervals[n] = float(split(es[last(n)], ":")[2])
        /\ arg = acpower \o <<":", "5", ".", "0", ",">> \o turbostat \o <<":", "1">> =>
              builder.intervals = (acpower :> F(5)) @@ (turbostat :> F(1))

C5_Witness ==
    /\ op = "parse_intervals" /\ calls = 1 /\ err = "none"
    /\ arg = acpower \o <<":", "5", ".", "0", ",">> \o acpower \o <<":", "1">>
    /\ builder.intervals = (acpower :> F(1))

C7_OnlyPositiveIntervals ==
    (op = "parse_intervals" /\ calls = 1) =>
        LET es == Entries(arg)
            nonpos(e) == ~Rejected(e) /\ float(Fields(e)[2]).m <= 0
        IN  /\ \A i \in 1..Len(es) :
                  (nonpos(es[i]) /\ \A j \in 1..(i - 1) : ~Rejected(es[j]) /\ ~nonpos(es[j]))
                      => err \in MalformedEntry
            /\ \A n \in DOMAIN builder.intervals : builder.intervals[n].m > 0

\* C8: a parse_intervals call that raises leaves include, exclude and
\* discover as they were and keeps in the intervals map what was there
\* before the call and what this call accepted before the failing entry.
C8_FailedIntervalsFrame ==
    [][(op' = "parse_intervals" /\ err' # "none") =>
          LET es == Entries(arg')
          IN  /\ builder'.include = builder.include
              /\ builder'.exclude = builder.exclude
              /\ builder'.discover = builder.discover
              /\ builder'.intervals =
                     Stored(builder.intervals, es, FirstRejected(es) - 1)]_vars

C8_Witness ==
    /\ op = "parse_intervals" /\ err # "none" /\ calls = 2
    /\ FirstRejected(Entries(arg)) = 2
    /\ Cardinality(DOMAIN builder.intervals) = 2

----------------------------------------------------------------------------
(* Claims about the agent *)

\* The collector of a statistic's locality exists.
CollectorExists(a, n) == DEFAULT_STINFO[n].inband \/ a.oob

\* The descriptor of a statistic, looked up in the collector of its locality.
Descriptor(a, n) == IF DEFAULT_STINFO[n].inband THEN a.inbcoll[n] ELSE a.oobcoll[n]

\* The statistics that have a descriptor in the agent.
Owned(a) == {n \in StNames : CollectorExists(a, n)}

\* C9: after set_enabled_stats(S) with known names, a statistic is enabled
\* iff it is in S and the collector of its locality exists, every other
\* statistic of both collectors is disabled, and get_enabled_stats()
\* returns exactly that set.
C9_SetEnabledExactly ==
    (aop = "set_enabled_stats" /\ aarg.stnames \subseteq StNames) =>
        /\ aerr = "none"
        /\ DOMAIN agent.inbcoll \cup DOMAIN agent.oobcoll = Owned(agent)
        /\ \A n \in Owned(agent) : Descriptor(agent, n).enabled <=> n \in aarg.stnames
        /\ get_enabled_stats(agent) = {n \in aarg.stnames : CollectorExists(agent, n)}

C9_Witness ==
    /\ aop = "set_enabled_stats" /\ aerr = "none" /\ ops = 3
    /\ agent.oob
    /\ aarg.stnames = {turbostat, acpower}
    /\ get_enabled_stats(agent) = {turbostat, acpower}

\* C10: set_disabled_stats(S) with known names disables the statistics in S
\* and changes nothing else: the enabled set afterwards is the enabled set
\* before minus S, and every interval, property and tool path, and the flag
\* of every statistic not in S, is as it was.
C10_SetDisabledFrame ==
    [][(aop' = "set_disabled_stats" /\ aarg'.stnames \subseteq StNames) =>
          /\ aerr' = "none"
          /\ get_enabled_stats(agent') = get_enabled_stats(agent) \ aarg'.stnames
          /\ agent'.oob = agent.oob
          /\ Owned(agent') = Owned(agent)
          /\ \A n \in Owned(agent) :
                Descriptor(agent', n) =
                    [Descriptor(agent, n) EXCEPT !.enabled = @ /\ n \notin aarg'.stnames]]_vars

C10_Witness ==
    /\ aop = "set_disabled_stats" /\ aerr = "none" /\ ops = 3
    /\ aarg.stnames = {acpower}
    /\ get_enabled_stats(agent) = {turbostat}
    /\ agent.inbcoll[turbostat].toolpath # DefaultToolpath

\* The calls that take statistic names, and the names the last call was given.
SelectionOps == {"set_enabled_stats", "set_disabled_stats", "set_intervals"}
GivenNames == IF aop = "set_intervals" THEN DOMAIN aarg.intervals ELSE aarg.stnames

\* The in-band and the out-of-band names of the catalog.
InbNames == {n \in StNames : DEFAULT_STINFO[n].inband}
OobNames == StNames \ InbNames

\* C11: set_enabled_stats, set_disabled_stats and set_intervals given a name
\* that is not in the catalog raise the unknown-statistic error and leave
\* every descriptor of both collectors as it was, also when other names of
\* the same call are known.
C11_UnknownNameRejected ==
    [][(aop' \in SelectionOps /\ ~(GivenNames' \subseteq StNames)) =>
          /\ aerr' = "UnknownStatistic"
          /\ agent' = agent]_vars

C11_Witness ==
    /\ aop = "set_intervals" /\ aerr = "UnknownStatistic" /\ ops = 3
    /\ DOMAIN aarg.intervals = {turbostat, UnknownName}
    /\ agent.inbcoll[turbostat].enabled
    /\ agent.inbcoll[turbostat].interval = DefaultInterval

\* The agent after the call 'name' given only the in-band names of 'args'.
InbOnly(a, name, args) ==
    CASE name = "set_enabled_stats" -> set_enabled_stats(a, args.stnames \cap InbNames).agent
      [] name = "set_disabled_stats" -> set_disabled_stats(a, args.stnames \cap InbNames).agent
      [] name = "set_intervals" ->
            set_intervals(a, [n \in DOMAIN args.intervals \cap InbNames |-> args.intervals[n]]).agent

\* C12: without an out-of-band collector, set_enabled_stats,
\* set_disabled_stats and set_intervals given known names, some of them
\* out-of-band, and in-band intervals that are positive, return without
\* error and do what the same call with the in-band names alone does; no
\* out-of-band name is ever enabled or in the dictionary set_intervals returns.
C12_OobPortionSkipped ==
    [][/\ (/\ aop' \in SelectionOps
           /\ ~agent.oob
           /\ GivenNames' \subseteq StNames
           /\ GivenNames' \cap OobNames # {}
           /\ aop' = "set_intervals" =>
                 \A n \in GivenNames' \cap InbNames : aarg'.intervals[n].m > 0)
          => /\ aerr' = "none"
             /\ agent' = InbOnly(agent, aop', aarg')
             /\ DOMAIN aret'.intervals \subseteq GivenNames' \cap InbNames
       /\ ~agent'.oob =>
             /\ agent'.oobcoll = EmptyMap
             /\ get_enabled_stats(agent') \cap OobNames = {}
             /\ DOMAIN aret'.intervals \cap OobNames = {}]_vars

C12_Witness ==
    /\ aop = "set_intervals" /\ aerr = "none" /\ ops = 3
    /\ ~agent.oob
    /\ DOMAIN aarg.intervals = {turbostat, acpower}
    /\ DOMAIN aret.intervals = {turbostat}
    /\ agent.inbcoll[turbostat].interval = [m |-> 2, e |-> 0]

\* C13: without an out-of-band collector, set_prop for a known out-of-band
\* statistic raises no error and changes no descriptor.
C13_SetPropSilentlySkipped ==
    [][(aop' = "set_prop" /\ ~agent.oob /\ aarg'.stname \in OobNames) =>
          /\ aerr' = "none"
          /\ agent' = agent]_vars

\* What C14 says of the set_prop call just made on the statistic 'st'.
SetPropOutcome(st) ==
    IF aarg'.name \notin DEFAULT_STINFO[st].props
    THEN /\ aerr' = "UnknownProperty"
         /\ aret'.known = DEFAULT_STINFO[st].props
         /\ agent' = agent
    ELSE /\ aerr' = "none"
         /\ agent'.oob = agent.oob
         /\ Owned(agent') = Owned(agent)
         /\ \A n \in Owned(agent) :
               Descriptor(agent', n) =
                   IF n = st
                   THEN [Descriptor(agent, n) EXCEPT !.props[aarg'.name] = str(aarg'.value)]
                   ELSE Descriptor(agent, n)

Intervals(a) == [n \in Owned(a) |-> Descriptor(a, n).interval]

\* 'ipmi' and 'ipmi-inband' are both enabled in an agent that has both
\* collectors.
BothIpmi(a) == a.oob /\ a.oobcoll[ipmi].enabled /\ a.inbcoll[ipmi_inband].enabled

\* C15: a configure() that follows a configure() with no call in between
\* leaves get_enabled_stats() and every configured interval as the first
\* one left them.
C15_ConfigureIdempotent ==
    [][(aop = "configure" /\ aop' = "configure") =>
          /\ get_enabled_stats(agent') = get_enabled_stats(agent)
          /\ Intervals(agent') = Intervals(agent)]_vars

C15_Witness ==
    /\ aop = "configure" /\ prev = "configure" /\ ops = 3
    /\ agent.oob
    /\ get_enabled_stats(agent) = {ipmi}
    /\ trace[1].ret = {}

\* C16: when configure() is called with an out-of-band collector and both
\* 'ipmi' and 'ipmi-inband' enabled, afterwards 'ipmi' is enabled and
\* 'ipmi-inband' is not; after every configure() the two are not both enabled.
C16_ConflictResolved ==
    [][aop' = "configure" =>
          /\ BothIpmi(agent) =>
                /\ agent'.oobcoll[ipmi].enabled
                /\ ~agent'.inbcoll[ipmi_inband].enabled
          /\ ~BothIpmi(agent')]_vars

C16_Witness ==
    /\ aop = "configure" /\ aerr = "none"
    /\ agent.oob
    /\ trace[1].ret = {ipmi_inband}
    /\ agent.oobcoll[ipmi].enabled
    /\ ~agent.inbcoll[ipmi_inband].enabled

\* C17: after construction the in-band collector is present and the
\* out-of-band collector is present iff the host is remote, and no call but
\* close() makes or removes a collector, so this holds until close().
C17_CollectorsPresent ==
    /\ [](ops = 0 => (agent.inb /\ (agent.oob <=> pman.is_remote)))
    /\ [][aop' # "close" =>
             /\ agent'.inb = agent.inb
             /\ agent'.oob = agent.oob
             /\ DOMAIN agent'.inbcoll = DOMAIN agent.inbcoll
             /\ DOMAIN agent'.oobcoll = DOMAIN agent.oobcoll
             /\ pman' = pman]_vars

C17_Witness ==
    /\ ops = 3 /\ aop = "start" /\ prev = "configure" /\ aerr = "none"
    /\ ~pman.is_remote
    /\ agent.inb /\ ~agent.oob
    /\ running.inb

\* C18: discover() asks the in-band collector and then, when it exists, the
\* out-of-band collector; when neither fails it returns the union of what
\* they returned, which without an out-of-band collector is what the in-band
\* collector returned.
C18_DiscoverUnion ==
    aop = "discover" =>
        /\ trace[1].coll = "inbcoll" /\ trace[1].call = "discover"
        /\ Len(trace) = IF agent.oob /\ trace[1].ok THEN 2 ELSE 1
        /\ Len(trace) = 2 => trace[2].coll = "oobcoll" /\ trace[2].call = "discover"
        /\ aerr = "none" <=> \A i \in 1..Len(trace) : trace[i].ok
        /\ aerr = "none" => aret.stnames = UNION {trace[i].ret : i \in 1..Len(trace)}
        /\ (~agent.oob /\ trace[1].ok) => (aerr = "none" /\ aret.stnames = trace[1].ret)

C18_Witness ==
    /\ aop = "discover" /\ aerr = "none"
    /\ agent.oob
    /\ trace[1].ret = {ipmi_inband}
    /\ trace[2].ret = {ipmi}
    /\ aret.stnames = {ipmi, ipmi_inband}

\* The steps of a configure() that runs to its end.
ConfigureSteps(a) ==
    <<(<<"facade", "_handle_conflicting_stats">>), (<<"inbcoll", "configure">>)>> \o
        (IF a.oob THEN <<(<<"oobcoll", "configure">>)>> ELSE <<>>)

\* C19: the steps of configure() are conflict resolution, then the in-band
\* collector's configure(), then the out-of-band collector's configure() iff
\* that collector exists; the call goes from one step to the next when the
\* step succeeded and ends where a step failed.
C19_ConfigureOrder ==
    aop = "configure" =>
        LET done == [i \in 1..Len(trace) |-> <<trace[i].coll, trace[i].call>>]
            full == ConfigureSteps(agent)
        IN  /\ Len(trace) >= 1 /\ Len(trace) <= Len(full)
            /\ done = SubSeq(full, 1, Len(trace))
            /\ \A i \in 1..(Len(trace) - 1) : trace[i].ok
            /\ trace[Len(trace)].ok => Len(trace) = Len(full)
            /\ aerr = "none" <=> trace[Len(trace)].ok

C19_Witness ==
    /\ aop = "configure" /\ aerr = "none"
    /\ agent.oob
    /\ Len(trace) = 3
    /\ trace[3].coll = "oobcoll" /\ trace[3].ok

\* C20: when the out-of-band collector's start() fails after the in-band
\* collector's start() succeeded, start() goes on to stop the in-band
\* collector.
C20_StopsInbandWhenOobFails ==
    (aop = "start" /\ Len(trace) >= 2 /\ trace[1].ok /\ ~trace[2].ok) =>
        \E i \in 3..Len(trace) : trace[i].coll = "inbcoll" /\ trace[i].call = "stop"

\* The collector and the command of every step of a trace.
StepNames(tr) == [i \in 1..Len(tr) |-> <<tr[i].coll, tr[i].call>>]

\* C21: close() closes the out-of-band collector if there is one, then the
\* in-band collector if there is one, then drops the pman reference; it
\* raises no error, whether a collector is absent or was closed before, and
\* leaves no collector and no reference.
C21_CloseOrder ==
    [][aop' = "close" =>
          /\ aerr' = "none"
          /\ StepNames(trace') =
                (IF agent.oob THEN <<(<<"oobcoll", "close">>)>> ELSE <<>>) \o
                (IF agent.inb THEN <<(<<"inbcoll", "close">>)>> ELSE <<>>) \o
                <<(<<"pman", "unref">>)>>
          /\ ~agent'.inb /\ ~agent'.oob /\ ~agent'.pman
          /\ running' = NotRunning]_vars

C21_Witness ==
    /\ aop = "close" /\ prev = "close" /\ aerr = "none"
    /\ pman.is_remote
    /\ StepNames(trace) = <<(<<"pman", "unref">>)>>
    /\ ~agent.inb /\ ~agent.oob

Exists == InbNames \cup (IF pman.is_remote THEN OobNames ELSE {})
Discovered == (Exists \ builder.exclude) \cap aarg.stnames

\* The places of the configure() calls in the log, and every call made
\* before configure() returned.
ConfigureCalls == {i \in 1..Len(log) : log[i].call = "configure"}
SetupWentWell == \A i \in 1..Len(log) : log[i].call # "configure" => log[i].ok

\* C22: apply_stconf in discovery mode, when every name of include is
\* discovered and every call before it returns, calls configure() last with
\* exactly the discovered statistics enabled: they hold include, none of
\* them is excluded and none is a statistic the discovery did not report.
C22_ApplyDiscoveryMode ==
    (/\ aop = "apply_stconf"
     /\ builder.discover
     /\ builder.include \subseteq Discovered
     /\ SetupWentWell) =>
        /\ log # <<>>
        /\ log[Len(log)].call = "configure"
        /\ log[Len(log)].enabled = Discovered \ builder.exclude
        /\ builder.include \subseteq log[Len(log)].enabled
        /\ log[Len(log)].enabled \subseteq aarg.stnames

C22_Witness ==
    /\ aop = "apply_stconf" /\ aerr = "none"
    /\ pman.is_remote
    /\ builder.discover /\ builder.include = {turbostat}
    /\ aarg.stnames = {turbostat, ipmi, ipmi_inband}
    /\ log[Len(log)].enabled = {turbostat, ipmi, ipmi_inband}
    /\ get_enabled_stats(agent) = {turbostat, ipmi}

\* C23: create_and_configure_stcoll in discovery mode, when every name of
\* include is discovered, calls configure() with exactly the discovered
\* statistics minus exclude enabled, and the collector it returns has no
\* statistic enabled that the discovery did not report.
C23_CreateDiscoveryMode ==
    (/\ aop = "create_and_configure_stcoll"
     /\ builder.discover
     /\ builder.include \subseteq Discovered
     /\ SetupWentWell) =>
        /\ \A i \in ConfigureCalls : log[i].enabled = Discovered \ builder.exclude
        /\ aret.stcoll => get_enabled_stats(agent) \subseteq aarg.stnames

\* C24: in discovery mode, when discover() returned and some name of include
\* is not among the discovered statistics, apply_stconf and
\* create_and_configure_stcoll raise the statistics-unavailable error, which
\* names exactly the names of include that were not discovered, and
\* configure() is not called.
C24_UnavailableReported ==
    (/\ Done
     /\ builder.discover
     /\ \E i \in 1..Len(log) : log[i].call = "discover" /\ log[i].ok
     /\ ~(builder.include \subseteq Discovered)) =>
        /\ aerr = "StatisticsUnavailable"
        /\ aret.stnames = builder.include \ Discovered
        /\ ConfigureCalls = {}

C24_Witness ==
    /\ aop = "create_and_configure_stcoll" /\ aerr = "StatisticsUnavailable"
    /\ builder.discover /\ builder.include = {turbostat}
    /\ aarg.stnames = {}
    /\ aret.stnames = {turbostat}
    /\ log[Len(log)].call = "discover"

\* C25: with discover false, apply_stconf and create_and_configure_stcoll
\* do not call discover(), and when they call configure() the enabled
\* statistics are the names of include whose collector exists, whatever was
\* enabled before and whatever exclude holds.
C25_ExplicitMode ==
    (Done /\ ~builder.discover) =>
        /\ \A i \in 1..Len(log) : log[i].call # "discover"
        /\ \A i \in ConfigureCalls : log[i].enabled = builder.include \cap Exists
        /\ (aop = "apply_stconf" /\ SetupWentWell) => ConfigureCalls # {}

C25_Witness ==
    /\ aop = "apply_stconf" /\ prev = "set_enabled_stats" /\ aerr = "none"
    /\ ~pman.is_remote
    /\ ~builder.discover
    /\ builder.include = {turbostat, acpower}
    /\ log[Len(log)].call = "configure"
    /\ log[1].enabled = {ipmi_inband}
    /\ get_enabled_stats(agent) = {turbostat}

\* C26: apply_stconf calls set_intervals first, with the intervals of the
\* configuration, on either path; it calls configure() at most once, as its
\* last call, and only when set_intervals returned.
C26_IntervalsBeforeConfigure ==
    aop = "apply_stconf" =>
        /\ log # <<>>
        /\ log[1].call = "set_intervals"
        /\ log[1].intervals = builder.intervals
        /\ Cardinality(ConfigureCalls) <= 1
        /\ \A i \in ConfigureCalls : i > 1 /\ i = Len(log) /\ log[1].ok

C26_Witness ==
    /\ aop = "apply_stconf" /\ aerr = "none"
    /\ builder.discover
    /\ DOMAIN builder.intervals = {turbostat}
    /\ log[Len(log)].call = "configure"
    /\ builder.intervals[turbostat] = [m |-> 1, e |-> 0]
    /\ agent.inbcoll[turbostat].interval = [m |-> 1, e |-> 0]

\* C27: when create_and_configure_stcoll parsed a non-empty interval map,
\* a set_intervals call with that map precedes its configure() call.
C27_CreateAppliesIntervals ==
    (aop = "create_and_configure_stcoll" /\ builder.intervals # EmptyMap) =>
        \A i \in ConfigureCalls :
            \E j \in 1..(i - 1) :
                log[j].call = "set_intervals" /\ log[j].intervals = builder.intervals

\* The places of the close() calls in the log.
CloseCalls == {i \in 1..Len(log) : log[i].call = "close"}

\* C28: when the configure() of create_and_configure_stcoll returned, the
\* function raises nothing; if no statistic is enabled then, it closes the
\* collector once and returns None; otherwise it returns the collector,
\* open, and never closed it.
C28_EmptyResult ==
    (/\ aop = "create_and_configure_stcoll"
     /\ \E i \in ConfigureCalls : log[i].ok) =>
        /\ aerr = "none"
        /\ IF aret.stcoll
           THEN /\ agent.inb
                /\ get_enabled_stats(agent) # {}
                /\ CloseCalls = {}
           ELSE /\ ~agent.inb /\ ~agent.oob
                /\ CloseCalls = {Len(log)}
                /\ log[Len(log)].enabled = {}

C28_Witness ==
    /\ aop = "create_and_configure_stcoll" /\ aerr = "none"
    /\ arg = <<"!">> \o acpower
    /\ ~builder.discover /\ builder.include = {}
    /\ ~aret.stcoll
    /\ CloseCalls = {Len(log)}

\* C29: when create_and_configure_stcoll raises after it made the collector,
\* the collector has been closed.
C29_NoOrphanedAgent ==
    (aop = "create_and_configure_stcoll" /\ aerr # "none" /\ log # <<>>) =>
        /\ CloseCalls # {}
        /\ ~agent.inb /\ ~agent.oob

----------------------------------------------------------------------------
(* Claims about repeated parsing and about the empty selection *)

\* What the string of a parse_stnames call gives on a builder of its own.
Alone(s) == parse_stnames(NewBuilder, s).builder

\* C37: a parse_stnames call removes no name from include or exclude and
\* never turns discover off; when it returns, include, exclude and discover
\* are what the builder held before joined with what the string alone
\* gives; and when the string excludes a name the builder includes, or
\* includes a name the builder excludes, the call raises the
\* conflicting-selection error.
C37_ParsingAccumulates ==
    [][op' = "parse_stnames" =>
          /\ builder.include \subseteq builder'.include
          /\ builder.exclude \subseteq builder'.exclude
          /\ builder.discover => builder'.discover
          /\ err' = "none" =>
                 /\ builder'.include = builder.include \cup Alone(arg').include
                 /\ builder'.exclude = builder.exclude \cup Alone(arg').exclude
                 /\ builder'.discover = (builder.discover \/ Alone(arg').discover)
          /\ (\/ Alone(arg').exclude \cap builder.include # {}
              \/ Alone(arg').include \cap builder.exclude # {})
                 => err' = "ConflictingSelection"]_vars

C37_Witness ==
    /\ op = "parse_stnames" /\ err = "none" /\ calls = 2
    /\ arg = Join(<<turbostat, acpower>>, ",")
    /\ builder.discover
    /\ builder.include = {turbostat, acpower}
    /\ builder.exclude = {}

\* C38: create_and_configure_stcoll with an empty statistics string or with
\* "none" returns None and raises nothing: it parsed nothing, made no
\* StatsCollect object and made no call on one.
C38_NothingToCollect ==
    (aop = "create_and_configure_stcoll" /\ arg \in {<<>>, <<"none">>}) =>
        /\ aerr = "none" /\ err = "none"
        /\ ~aret.stcoll
        /\ builder = NewBuilder
        /\ log = <<>>
        /\ agent = NoAgent

C38_Witness ==
    /\ aop = "create_and_configure_stcoll" /\ arg = <<"none">>
    /\ aerr = "none"
    /\ ~aret.stcoll
    /\ log = <<>>

----------------------------------------------------------------------------
(* Claims about what discover(), configure() and set_intervals() leave alone *)

\* C32: discover() returns only statistics that are enabled when it is
\* called, and whether it returns or fails in either collector it changes
\* no descriptor, no collector and not which collectors are sampling.
C32_DiscoverFrame ==
    [][aop' = "discover" =>
          /\ aret'.stnames \subseteq get_enabled_stats(agent)
          /\ agent' = agent
          /\ running' = running]_vars

C32_Witness ==
    /\ aop = "discover" /\ prev = "discover" /\ ops = 3
    /\ aerr = "CollectionError"
    /\ agent.oob
    /\ Len(trace) = 2
    /\ get_enabled_stats(agent) = {turbostat, acpower}

\* C33: configure() enables nothing and changes nothing but the enabled
\* flag of 'ipmi-inband'; without an out-of-band collector, or with at most
\* one of 'ipmi' and 'ipmi-inband' enabled, it changes nothing at all,
\* whether the collectors' configure() succeeds or fails.
C33_ConflictFrame ==
    [][aop' = "configure" =>
          /\ get_enabled_stats(agent') \subseteq get_enabled_stats(agent)
          /\ agent' = [agent EXCEPT !.inbcoll[ipmi_inband].enabled =
                                        agent'.inbcoll[ipmi_inband].enabled]
          /\ (~agent.oob \/ ~BothIpmi(agent)) => agent' = agent]_vars

C33_Witness ==
    /\ aop = "configure" /\ prev = "set_enabled_stats" /\ aerr = "none"
    /\ ~pman.is_remote /\ ~agent.oob
    /\ trace[1].ret = {}
    /\ get_enabled_stats(agent) = {ipmi_inband}

\* C34: a set_intervals() that returns stores each given interval in the
\* descriptor held by the collector of the statistic's locality and touches
\* nothing else; the dictionary it returns holds, with the given values,
\* the given statistics of either locality that are enabled in an existing
\* collector, so its keys are given keys and only enabled statistics.
C34_IntervalsSplit ==
    [][(aop' = "set_intervals" /\ aerr' = "none") =>
          LET given == aarg'.intervals
              ret == aret'.intervals
          IN  /\ DOMAIN ret \subseteq DOMAIN given
              /\ DOMAIN ret \subseteq get_enabled_stats(agent')
              /\ DOMAIN ret = {n \in DOMAIN given :
                                  CollectorExists(agent, n) /\ Descriptor(agent, n).enabled}
              /\ \A n \in DOMAIN ret : ret[n] = given[n]
              /\ \A n \in StNames :
                    CollectorExists(agent', n) =>
                        Descriptor(agent', n) =
                            IF n \in DOMAIN given
                            THEN [Descriptor(agent, n) EXCEPT !.interval = given[n]]
                            ELSE Descriptor(agent, n)
              /\ agent'.inb = agent.inb /\ agent'.oob = agent.oob]_vars

C34_Witness ==
    /\ aop = "set_intervals" /\ aerr = "none"
    /\ agent.oob
    /\ DOMAIN aarg.intervals = {turbostat, acpower}
    /\ DOMAIN aret.intervals = {turbostat, acpower}
    /\ agent.inbcoll[turbostat].interval = [m |-> 2, e |-> 0]
    /\ agent.oobcoll[acpower].interval = [m |-> 2, e |-> 0]
    /\ agent.inbcoll[ipmi_inband].interval = DefaultInterval

\* The intervals of the enabled statistics of the collectors that exist.
EnabledIntervals(a) == {Descriptor(a, n).interval : n \in get_enabled_stats(a)}

\* C36: get_max_interval() returns an interval of an enabled statistic that
\* no interval of an enabled statistic exceeds, of either collector, and 0
\* when no statistic is enabled; it raises nothing.
C36_MaxInterval ==
    aop = "get_max_interval" =>
        /\ aerr = "none"
        /\ IF EnabledIntervals(agent) = {}
           THEN aret.max_interval = Zero
           ELSE /\ aret.max_interval \in EnabledIntervals(agent)
                /\ \A x \in EnabledIntervals(agent) : Leq(x, aret.max_interval)

C36_Witness ==
    /\ aop = "get_max_interval"
    /\ agent.oob
    /\ get_enabled_stats(agent) = {ipmi, ipmi_inband}
    /\ agent.inbcoll[ipmi_inband].interval = [m |-> 2, e |-> 0]
    /\ agent.oobcoll[ipmi].interval = DefaultInterval
    /\ aret.max_interval = DefaultInterval

\* An output directory that is given and is not absolute.
Relative(path) == path # <<>> /\ ~is_absolute(path)

\* The steps close() would take on an agent.
CloseSteps(a) == close(a, NotRunning).trace

\* C35: the constructor raises when the local or the remote output
\* directory is given as a relative path, and then no collector has been
\* made: close() would find no collector to close. Otherwise it raises
\* nothing and the collectors are made.
C35_RelativeOutdirRejected ==
    aop = "__init__" =>
        IF Relative(aarg.local_outdir) \/ Relative(aarg.remote_outdir)
        THEN /\ aerr = "NotAbsolute"
             /\ ~agent.inb /\ ~agent.oob
             /\ agent.inbcoll = EmptyMap /\ agent.oobcoll = EmptyMap
             /\ \A i \in 1..Len(CloseSteps(agent)) : CloseSteps(agent)[i].coll = "pman"
        ELSE /\ aerr = "none"
             /\ agent = NewAgent(pman.is_remote)

C35_Witness ==
    /\ aop = "__init__" /\ aerr = "NotAbsolute"
    /\ pman.is_remote
    /\ aarg.local_outdir = <<"/", "out">>
    /\ Relative(aarg.remote_outdir)
    /\ ~agent.inb /\ ~agent.oob

\* ---------------------------------------------------------------------
\* The start commands of wult and ndl (_WultStart.py, _NdlStart.py).
\*
\* start_command() runs its statements inside 'with ExitStack() as stack'.
\* Here 'aarg' holds the tool and whether build_stcoll_nores() returns a
\* collector, 'ops' is the statement that runs next, 'log' is the ExitStack
\* (the resources entered and not yet closed), 'trace' is what happened so
\* far, 'aop' is "init" while the command runs and "returned" or "raised"
\* once it has left the 'with' block.
\* ---------------------------------------------------------------------

Stmt(kind, res, call) == [kind |-> kind, res |-> res, call |-> call]

\* wult: _WultStart.start_command(), lines 115-187.
wult_start ==
    << Stmt("enter", "pman", "get_pman"),                   \* 116-117
       Stmt("call", "args", "parse"),                       \* 119-135
       Stmt("enter", "cpuinfo", "CPUInfo"),                 \* 137-138
       Stmt("call", "cpuinfo", "check_cpu_vendor"),         \* 140-141
       Stmt("enter", "res", "WORawResult"),                 \* 142-145
       Stmt("call", "res", "set_filters"),                  \* 147-148
       Stmt("enter", "stcoll_builder", "StatsCollectBuilder"), \* 150-151
       Stmt("call", "stcoll_builder", "parse_stnames"),     \* 153-156
       Stmt("build", "stcoll", "build_stcoll_nores"),       \* 158-161
       Stmt("enter", "dev", "GetDevice"),                   \* 163-164
       Stmt("with", "depl", "check_deployment"),            \* 166-168
       Stmt("call", "dev", "check_network"),                \* 170-171
       Stmt("make", "cpuidle", "CPUIdle"),                  \* 173-174
       Stmt("call", "dev", "check_settings"),               \* 176
       Stmt("enter", "fnobj", "FreqNoise"),                 \* 178-179
       Stmt("enter", "runner", "WultRunner"),               \* 181-184
       Stmt("call", "runner", "prepare"),                   \* 186
       Stmt("call", "runner", "run") >>                     \* 187

\* ndl: _NdlStart.start_command(), lines 112-195.
ndl_start ==
    << Stmt("enter", "pman", "get_pman"),                   \* 113-114
       Stmt("call", "args", "parse"),                       \* 116-127
       Stmt("enter", "cpuinfo", "CPUInfo"),                 \* 129-130
       Stmt("enter", "dev", "GetDevice"),                   \* 132-139
       Stmt("call", "cpuinfo", "normalize_cpu"),            \* 141-153
       Stmt("enter", "res", "WORawResult"),                 \* 155-157
       Stmt("call", "res", "set_filters"),                  \* 159-165
       Stmt("enter", "stcoll_builder", "StatsCollectBuilder"), \* 167-168
       Stmt("call", "stcoll_builder", "parse_stnames"),     \* 170-173
       Stmt("build", "stcoll", "build_stcoll_nores"),       \* 175-178
       Stmt("with", "depl", "check_deployment"),            \* 180-182
       Stmt("call", "dev", "check_network"),                \* 184
       Stmt("call", "dev", "get_pci_info"),                 \* 186-188
       Stmt("enter", "runner", "NdlRunner"),                \* 190-192
       Stmt("call", "runner", "prepare"),                   \* 194
       Stmt("call", "runner", "run") >>                     \* 195

Program(tool) == IF tool = "wult" THEN wult_start ELSE ndl_start

\* A statement that raises nothing: what happens, and the ExitStack after it.
\*   enter: the resource is made and stack.enter_context() puts it on the stack
\*   build: build_stcoll_nores() returns a collector or None; 'if stcoll:'
\*          enters the collector
\*   with:  a 'with' block of its own: entered, used and closed in place
\*   make:  an object is made and never entered (cpuidle: it is handed the
\*          pman and the cpuinfo of the stack and is passed to the runner)
\*   call:  a call on something that exists
Exec(stmt, stack, built) ==
    CASE stmt.kind = "enter" ->
            [steps |-> << Step(stmt.res, "enter", TRUE, {}) >>,
             stack |-> Append(stack, stmt.res)]
      [] stmt.kind = "build" ->
            IF built
            THEN [steps |-> << Step(stmt.res, stmt.call, TRUE, {}),
                               Step(stmt.res, "enter", TRUE, {}) >>,
                  stack |-> Append(stack, stmt.res)]
            ELSE [steps |-> << Step("none", stmt.call, TRUE, {}) >>,
                  stack |-> stack]
      [] stmt.kind = "with" ->
            [steps |-> << Step(stmt.res, "enter", TRUE, {}),
                          Step(stmt.res, stmt.call, TRUE, {}),
                          Step(stmt.res, "close", TRUE, {}) >>,
             stack |-> stack]
      [] OTHER ->
            [steps |-> << Step(stmt.res, stmt.call, TRUE, {}) >>,
             stack |-> stack]

\* A statement that raises: what happened before the exception left it.
\* Making a resource failed, so nothing was entered; the body of a 'with'
\* block failed, so its own resource was closed on the way out.
Fail(stmt) ==
    IF stmt.kind = "with"
    THEN << Step(stmt.res, "enter", TRUE, {}),
            Step(stmt.res, stmt.call, FALSE, {}),
            Step(stmt.res, "close", TRUE, {}) >>
    ELSE << Step(stmt.res, stmt.call, FALSE, {}) >>

\* An exit that closes the resources in the order they were entered.
ExitStack_exit_fifo(stack, failing) ==
    [i \in 1..Len(stack) |-> Step(stack[i], "close", stack[i] \notin failing, {})]

\* ExitStack.__exit__(): every resource on the stack is closed, the one
\* entered last first. A close() that raises ('failing') does not stop the
\* others from being closed.
ExitStack_exit(stack, failing) ==
    [i \in 1..Len(stack) |->
        Step(stack[Len(stack) + 1 - i], "close", stack[Len(stack) + 1 - i] \notin failing, {})]

Range(seq) == {seq[i] : i \in 1..Len(seq)}

Tools == {"wult", "ndl"}

InitStart ==
    /\ BuilderInit
    /\ pman \in [is_remote : BOOLEAN]
    /\ agent = NoAgent
    /\ aop = "init"
    /\ aarg \in [tool : Tools, stats : BOOLEAN]
    /\ aerr = "none"
    /\ ops = 1
    /\ running = NotRunning
    /\ trace = <<>>
    /\ aret = NoRet
    /\ prev = "init"
    /\ log = <<>>

\* The next statement runs and raises nothing.
Statement ==
    /\ aop = "init"
    /\ ops <= Len(Program(aarg.tool))
    /\ \E r \in {Exec(Program(aarg.tool)[ops], log, aarg.stats)} :
        /\ trace' = trace \o r.steps
        /\ log' = r.stack
    /\ ops' = ops + 1
    /\ UNCHANGED <<agent, aop, aarg, aerr, running, aret, prev, pman, bvars>>

\* The next statement raises: the exception leaves the 'with' block and
\* the ExitStack closes what was entered.
Raise ==
    /\ aop = "init"
    /\ ops <= Len(Program(aarg.tool))
    /\ \E failing \in SUBSET Range(log) :
        trace' = trace \o Fail(Program(aarg.tool)[ops]) \o ExitStack_exit(log, failing)
    /\ log' = <<>>
    /\ aop' = "raised"
    /\ aerr' = "Error"
    /\ prev' = Program(aarg.tool)[ops].call
    /\ UNCHANGED <<agent, aarg, ops, running, aret, pman, bvars>>

\* The last statement has run: the 'with' block ends.
Return ==
    /\ aop = "init"
    /\ ops = Len(Program(aarg.tool)) + 1
    /\ \E failing \in SUBSET Range(log) :
        /\ trace' = trace \o ExitStack_exit(log, failing)
        /\ aerr' = IF failing = {} THEN "none" ELSE "Error"
    /\ log' = <<>>
    /\ aop' = "returned"
    /\ prev' = "run"
    /\ UNCHANGED <<agent, aarg, ops, running, aret, pman, bvars>>

NextStart ==
    \/ Statement
    \/ Raise
    \/ Return

SpecStart == InitStart /\ [][NextStart]_vars

\* ---------------------------------------------------------------------
\* Claim about the resources of the start commands
\* ---------------------------------------------------------------------

\* Where in the trace something was done to a resource, 0 when it was not.
At(res, call) ==
    IF \E i \in 1..Len(trace) : trace[i].coll = res /\ trace[i].call = call
    THEN CHOOSE i \in 1..Len(trace) :
            /\ trace[i].coll = res /\ trace[i].call = call
            /\ \A j \in 1..(i - 1) : ~(trace[j].coll = res /\ trace[j].call = call)
    ELSE 0

Entered == {trace[i].coll : i \in {j \in 1..Len(trace) : trace[j].call = "enter"}}

Closes(res) == Cardinality({i \in 1..Len(trace) : trace[i].coll = res /\ trace[i].call = "close"})

Exited == aop \in {"returned", "raised"}

\* C31: in the wult and ndl start commands, whatever was entered is closed
\* exactly once by the time the command returns or raises, and of two
\* resources held at the same time the one entered later is closed first
\* (a 'with' block of its own has closed its resource before the next
\* statement enters anything); the statistics
\* collector, once entered, is closed on every exit, a raising later step
\* included, and before pman is.
C31_ReleasedInReverse ==
    /\ \A r \in Entered : Closes(r) <= 1
    /\ \A r1 \in Entered, r2 \in Entered :
        (/\ At(r1, "enter") < At(r2, "enter")
         /\ Closes(r1) = 1
         /\ At(r2, "enter") < At(r1, "close"))
            => (Closes(r2) = 1 /\ At(r2, "close") < At(r1, "close"))
    /\ Exited => \A r \in Entered : Closes(r) = 1
    /\ (Exited /\ "stcoll" \in Entered) =>
        /\ Closes("stcoll") = 1
        /\ 0 < At("stcoll", "close")
        /\ At("stcoll", "close") < At("pman", "close")

\* runner.prepare() raises in wult after the collector was entered; the
\* collector is closed, after the runner and before pman.
C31_Witness ==
    /\ aarg.tool = "wult" /\ aop = "raised" /\ prev = "prepare"
    /\ "stcoll" \in Entered
    /\ At("runner", "close") < At("stcoll", "close")
    /\ At("stcoll", "close") < At("pman", "close")
    /\ Closes("stcoll") = 1

====
